---- MODULE Spec2Model ----
(***************************************************************************)
(* A model of logfaker: the category store, the content and user           *)
(* generators, the engagement simulation and the CSV exporter / importer.   *)
(*                                                                         *)
(* Text is modelled as a sequence of characters (one-character strings);   *)
(* a column title of a CSV header is a single atom, since the code never   *)
(* looks inside it.  A file is what the writer's character sequence is      *)
(* to csv.reader: the records it yields.                                   *)
(***************************************************************************)
EXTENDS Integers, Sequences, FiniteSets, TLC

\* ------------------------------------------------------------------------
\* Bounds of the model
\* ------------------------------------------------------------------------

\* longest collection handed to an exporter
MaxLen == 2

\* ------------------------------------------------------------------------
\* Text
\* ------------------------------------------------------------------------

Range(s) == {s[i] : i \in 1..Len(s)}

Min(a, b) == IF a <= b THEN a ELSE b

\* the value None of Python, kept apart from every text
NoneVal == <<"<None>">>

Digits == <<"0", "1", "2", "3", "4", "5", "6", "7", "8", "9">>

IsDigit(c) == \E d \in 1..10 : Digits[d] = c

DigitVal(c) == (CHOOSE d \in 1..10 : Digits[d] = c) - 1

Whitespace == {" ", "\n", "\r", "\t"}

RECURSIVE NatToText(_)
\* str(n) for n >= 0
NatToText(n) ==
    IF n < 10 THEN <<Digits[n + 1]>>
    ELSE NatToText(n \div 10) \o <<Digits[(n % 10) + 1]>>

\* str(n) of an int, as csv.writer applies it to a non-string field
IntToText(n) == IF n < 0 THEN <<"-">> \o NatToText(0 - n) ELSE NatToText(n)

RECURSIVE lstrip(_)
lstrip(t) ==
    IF t # <<>> /\ Head(t) \in Whitespace THEN lstrip(Tail(t)) ELSE t

RECURSIVE rstrip(_)
rstrip(t) ==
    IF t # <<>> /\ t[Len(t)] \in Whitespace
    THEN rstrip(SubSeq(t, 1, Len(t) - 1)) ELSE t

\* str.strip()
strip(t) == rstrip(lstrip(t))

RECURSIVE DigitsToNat(_, _)
DigitsToNat(t, acc) ==
    IF t = <<>> THEN acc
    ELSE DigitsToNat(Tail(t), 10 * acc + DigitVal(Head(t)))

\* int(text): blanks around the number and a sign are accepted, anything
\* else is a ValueError; int(None) is a TypeError
TextToInt(t) ==
    LET digits(neg, body) ==
            IF body # <<>> /\ \A i \in 1..Len(body) : IsDigit(body[i])
            THEN [ok |-> TRUE, err |-> "",
                  val |-> IF neg THEN 0 - DigitsToNat(body, 0) ELSE DigitsToNat(body, 0)]
            ELSE [ok |-> FALSE, err |-> "ValueError", val |-> 0]
        stripped(s) ==
            digits(s # <<>> /\ Head(s) = "-",
                   IF s # <<>> /\ Head(s) \in {"-", "+"} THEN Tail(s) ELSE s)
    IN  IF t = NoneVal THEN [ok |-> FALSE, err |-> "TypeError", val |-> 0]
        ELSE stripped(strip(t))

RECURSIVE join(_, _)
\* sep.join(parts)
join(sep, parts) ==
    IF parts = <<>> THEN <<>>
    ELSE IF Len(parts) = 1 THEN parts[1]
    ELSE parts[1] \o sep \o join(sep, Tail(parts))

RECURSIVE split(_, _, _)
\* text.split(sep) for a one-character separator: cur is the piece being read
split(t, sep, cur) ==
    IF t = <<>> THEN <<cur>>
    ELSE IF Head(t) = sep THEN <<cur>> \o split(Tail(t), sep, <<>>)
    ELSE split(Tail(t), sep, Append(cur, Head(t)))

\* ------------------------------------------------------------------------
\* The csv module (writer with the default dialect, reader, DictReader)
\* ------------------------------------------------------------------------

CsvSpecial == {",", "\"", "\r", "\n"}

\* csv_double_quotes that leaves a quote character as it is
csv_keep_quotes(f) == f

RECURSIVE csv_double_quotes(_)
csv_double_quotes(f) ==
    IF f = <<>> THEN <<>>
    ELSE (IF Head(f) = "\"" THEN <<"\"", "\"">> ELSE <<Head(f)>>)
         \o csv_double_quotes(Tail(f))

\* csv_field that quotes no field
csv_field_unquoted(f, alone) == f

\* one field as csv.writer writes it (QUOTE_MINIMAL, doublequote)
csv_field(f, alone) ==
    IF (\E i \in 1..Len(f) : f[i] \in CsvSpecial) \/ (alone /\ f = <<>>)
    THEN <<"\"">> \o csv_double_quotes(f) \o <<"\"">>
    ELSE f

\* writer.writerow(fields): the fields, comma separated, and "\r\n"
writerow(fields) ==
    join(<<",">>, [i \in 1..Len(fields) |-> csv_field(fields[i], Len(fields) = 1)])
    \o <<"\r", "\n">>

RECURSIVE writerows(_)
writerows(rows) ==
    IF rows = <<>> THEN <<>> ELSE writerow(Head(rows)) \o writerows(Tail(rows))

\* The reader's automaton.  st is the parser state, fld the field being
\* read, row the fields of the record being read, rows the finished records.
\* "EOL" stands for the end of a physical line.
csv_save_field(a) == [a EXCEPT !.row = Append(a.row, a.fld), !.fld = <<>>]

csv_end_record(a, nextst) ==
    [rows |-> Append(a.rows, Append(a.row, a.fld)), row |-> <<>>, fld |-> <<>>,
     st |-> nextst]

csv_step(a, c) ==
    CASE a.st = "START_RECORD" /\ c = "EOL" -> a
      [] a.st = "START_RECORD" /\ c \in {"\n", "\r"} ->
            [a EXCEPT !.rows = Append(a.rows, <<>>), !.st = "EAT_CRNL"]
      [] a.st \in {"START_RECORD", "START_FIELD"} /\ c \notin {"\n", "\r", "EOL"} ->
            IF c = "\"" THEN [a EXCEPT !.st = "IN_QUOTED_FIELD"]
            ELSE IF c = "," THEN [csv_save_field(a) EXCEPT !.st = "START_FIELD"]
            ELSE [a EXCEPT !.fld = Append(a.fld, c), !.st = "IN_FIELD"]
      [] a.st = "START_FIELD" /\ c \in {"\n", "\r", "EOL"} ->
            csv_end_record(a, IF c = "EOL" THEN "START_RECORD" ELSE "EAT_CRNL")
      [] a.st = "IN_FIELD" ->
            IF c \in {"\n", "\r", "EOL"}
            THEN csv_end_record(a, IF c = "EOL" THEN "START_RECORD" ELSE "EAT_CRNL")
            ELSE IF c = "," THEN [csv_save_field(a) EXCEPT !.st = "START_FIELD"]
            ELSE [a EXCEPT !.fld = Append(a.fld, c)]
      [] a.st = "IN_QUOTED_FIELD" ->
            IF c = "EOL" THEN a
            ELSE IF c = "\"" THEN [a EXCEPT !.st = "QUOTE_IN_QUOTED_FIELD"]
            ELSE [a EXCEPT !.fld = Append(a.fld, c)]
      [] a.st = "QUOTE_IN_QUOTED_FIELD" ->
            IF c = "\"" THEN [a EXCEPT !.fld = Append(a.fld, c), !.st = "IN_QUOTED_FIELD"]
            ELSE IF c = "," THEN [csv_save_field(a) EXCEPT !.st = "START_FIELD"]
            ELSE IF c \in {"\n", "\r", "EOL"}
            THEN csv_end_record(a, IF c = "EOL" THEN "START_RECORD" ELSE "EAT_CRNL")
            ELSE [a EXCEPT !.fld = Append(a.fld, c), !.st = "IN_FIELD"]
      [] a.st = "EAT_CRNL" ->
            IF c \in {"\n", "\r"} THEN a
            ELSE IF c = "EOL" THEN [a EXCEPT !.st = "START_RECORD"]
            ELSE [a EXCEPT !.st = "ERROR"]
      [] OTHER -> a

\* feeds the character at position i; a physical line ends after "\n" and
\* after a "\r" that no "\n" follows
csv_feed(text, i, a) ==
    IF a.st = "ERROR" THEN a
    ELSE IF text[i] = "\n" \/ (text[i] = "\r" /\ (i = Len(text) \/ text[i + 1] # "\n"))
    THEN csv_step(csv_step(a, text[i]), "EOL")
    ELSE csv_step(a, text[i])

RECURSIVE csv_run(_, _, _, _)
\* feeds the characters of text from position lo to position hi, in order
csv_run(text, lo, hi, a) ==
    LET upper(fed) == IF fed.st = "ERROR" THEN fed
                      ELSE csv_run(text, (lo + hi) \div 2 + 1, hi, fed)
    IN  IF lo > hi \/ a.st = "ERROR" THEN a
        ELSE IF lo = hi THEN csv_feed(text, lo, a)
        ELSE upper(csv_run(text, lo, (lo + hi) \div 2, a))

\* list(csv.reader(f)) for a file opened with newline="": the records; the
\* end of the file ends the last physical line, and an unfinished quoted
\* field closes its record
csv_reader(text) ==
    LET end_of_file(a) ==
            IF a.st # "ERROR" /\ text # <<>> /\ text[Len(text)] \notin {"\n", "\r"}
            THEN csv_step(a, "EOL") ELSE a
        records(a) ==
            IF a.st = "ERROR" THEN [ok |-> FALSE, rows |-> <<>>]
            ELSE IF a.st \in {"IN_QUOTED_FIELD", "IN_FIELD", "QUOTE_IN_QUOTED_FIELD"}
                    \/ a.row # <<>>
            THEN [ok |-> TRUE, rows |-> csv_end_record(a, "START_RECORD").rows]
            ELSE [ok |-> TRUE, rows |-> a.rows]
    IN  records(end_of_file(
            csv_run(text, 1, Len(text),
                    [st |-> "START_RECORD", fld |-> <<>>, row |-> <<>>, rows |-> <<>>])))

\* csv.DictReader over the records of a reader: the first record is the
\* header, empty records are skipped
DictReader(records) ==
    IF records = <<>> THEN [fieldnames |-> <<>>, rows |-> <<>>]
    ELSE [fieldnames |-> Head(records),
          rows |-> SelectSeq(Tail(records), LAMBDA x : x # <<>>)]

HasKey(fieldnames, key) == \E i \in 1..Len(fieldnames) : fieldnames[i] = <<key>>

\* row[key] of a DictReader row: a short record has None for the columns it
\* lacks; the caller checks HasKey first (KeyError)
Lookup(fieldnames, row, key) ==
    LET i == CHOOSE j \in 1..Len(fieldnames) :
                 /\ fieldnames[j] = <<key>>
                 /\ \A k \in (j + 1)..Len(fieldnames) : fieldnames[k] # <<key>>
    IN  IF i > Len(row) THEN NoneVal ELSE row[i]

\* ------------------------------------------------------------------------
\* Python values that meet in one list
\* ------------------------------------------------------------------------

\* A Category object that stands where a string is expected (a list handed
\* to validate_preferences, a preferences field): an opaque value that no
\* text equals.  Texts never hold the atom "<Category>".
CategoryObj(c) ==
    <<"<Category>">> \o IntToText(c.id) \o <<"|">> \o c.name \o <<"|">> \o c.description

\* isinstance(v, str)
IsStr(v) == v = <<>> \/ Head(v) \notin {"<Category>", "<None>"}

\* ------------------------------------------------------------------------
\* Paths and files
\* ------------------------------------------------------------------------

\* config.output_dir = None, and csv_path = None
NoDir == <<>>

NoPath == <<>>

\* the configured output directory of the runs that have one
OutDir == <<"out">>

\* the working directory of the process
Cwd == <<"/", "cwd">>

\* Path.resolve() / the file a path names when it is opened
FileOf(path) == IF path # <<>> /\ path[1] = "/" THEN path ELSE Cwd \o path

\* A file is kept as the records csv.reader yields from its text.
Absent == [exists |-> FALSE, records |-> <<>>]

\* the file that open(path, "w") and writer.writerow(row) for each row leave
Written(rows) == [exists |-> TRUE, records |-> csv_reader(writerows(rows)).rows]

\* the files of the model
Locs ==
    {FileOf(d \o <<n>>) : d \in {NoDir, OutDir},
                          n \in {"contents.csv", "users.csv", "categories.csv",
                                 "queries.csv", "logs.csv"}}

\* CsvExporter._resolve_path: config is <<>> for "no config", else <<output_dir>>
NoConfig == <<>>

Config(dir) == <<dir>>

\* resolve_path that puts every path under a configured output_dir
resolve_path_always_joins(output_path, config) ==
    IF config # NoConfig /\ config[1] # NoDir
    THEN config[1] \o output_path
    ELSE output_path

\* A path is the sequence of its parts, the root "/" being the first part of
\* an absolute one; dir / path is path when path is absolute.
resolve_path(output_path, config) ==
    LET joined(dir, path) == IF path[1] = "/" THEN path ELSE dir \o path
    IN  IF config # NoConfig /\ config[1] # NoDir /\ Len(output_path) = 1
        THEN joined(config[1], output_path)
        ELSE output_path

\* ------------------------------------------------------------------------
\* CsvExporter: the rows each export writes, header first
\* ------------------------------------------------------------------------

ContentHeader == <<<<"Content ID">>, <<"Title">>, <<"Description">>, <<"Category">>>>

UserHeader == <<<<"User ID">>, <<"Brief Explanation">>, <<"Profession">>, <<"Preferences">>>>

CategoryHeader == <<<<"Category ID">>, <<"Name">>, <<"Description">>>>

export_content_rows(contents) ==
    (<<ContentHeader>> \o
              [i \in 1..Len(contents) |->
                  <<IntToText(contents[i].content_id), contents[i].title,
                    contents[i].description, contents[i].category>>])

export_users_rows(users) ==
    (<<UserHeader>> \o
              [i \in 1..Len(users) |->
                  <<IntToText(users[i].user_id), users[i].brief_explanation,
                    users[i].profession, join(<<",">>, users[i].preferences)>>])

export_categories_rows(cats) ==
    (<<CategoryHeader>> \o
              [i \in 1..Len(cats) |->
                  <<IntToText(cats[i].id), cats[i].name, cats[i].description>>])

QueryHeader == <<<<"Query ID">>, <<"Query Content">>, <<"Category">>>>

LogHeader ==
    <<<<"Query ID">>, <<"User ID">>, <<"Search Query">>, <<"Search Results (JSON)">>>>

export_search_queries_rows(queries) ==
    (<<QueryHeader>> \o
              [i \in 1..Len(queries) |->
                  <<IntToText(queries[i].query_id), queries[i].query_content,
                    queries[i].category>>])

RECURSIVE json_escape(_)
\* the inside of a JSON string, ensure_ascii=False
json_escape(t) ==
    IF t = <<>> THEN <<>>
    ELSE (CASE Head(t) = "\"" -> <<"\\", "\"">>
            [] Head(t) = "\\" -> <<"\\", "\\">>
            [] Head(t) = "\n" -> <<"\\", "n">>
            [] Head(t) = "\r" -> <<"\\", "r">>
            [] Head(t) = "\t" -> <<"\\", "t">>
            [] OTHER -> <<Head(t)>>)
         \o json_escape(Tail(t))

json_string(t) == <<"\"">> \o json_escape(t) \o <<"\"">>

\* json.dumps of result.dict(): the fields in the order of the class; a
\* score is None or the text of a float
json_result(r) ==
    <<"{">> \o json_string(<<"content_id">>) \o <<":", " ">> \o IntToText(r.content_id)
    \o <<",", " ">> \o json_string(<<"title">>) \o <<":", " ">> \o json_string(r.title)
    \o <<",", " ">> \o json_string(<<"url">>) \o <<":", " ">> \o json_string(r.url)
    \o <<",", " ">> \o json_string(<<"relevance_score">>) \o <<":", " ">>
    \o (IF r.relevance_score = NoneVal THEN <<"null">> ELSE r.relevance_score)
    \o <<"}">>

\* json.dumps of the list of the results
json_dumps(results) ==
    <<"[">> \o join(<<",", " ">>, [i \in 1..Len(results) |-> json_result(results[i])])
    \o <<"]">>

\* export_search_logs_rows with the two id columns swapped
export_search_logs_rows_swapped(logs) ==
    (<<LogHeader>> \o
              [i \in 1..Len(logs) |->
                  <<IntToText(logs[i].user_id), IntToText(logs[i].query_id),
                    logs[i].search_query, json_dumps(logs[i].search_results)>>])

export_search_logs_rows(logs) ==
    (<<LogHeader>> \o
              [i \in 1..Len(logs) |->
                  <<IntToText(logs[i].query_id), IntToText(logs[i].user_id),
                    logs[i].search_query, json_dumps(logs[i].search_results)>>])

\* ------------------------------------------------------------------------
\* CsvImporter
\* ------------------------------------------------------------------------
\* An import answers [st, val]: st = "ok" with the list read, "none" for the
\* None of a missing file or column, "raise" for an exception it lets through.

ImpOk(v) == [st |-> "ok", val |-> v]

\* a missing file or column that is not caught
ImpUncaught == [st |-> "raise", val |-> <<>>]

ImpNone == [st |-> "none", val |-> <<>>]

ImpRaise == [st |-> "raise", val |-> <<>>]

RECURSIVE ImportRows(_, _)
\* the for loop of an import over the outcome of each row's conversion:
\* the first row that fails ends it
ImportRows(converted, acc) ==
    IF converted = <<>> THEN ImpOk(acc)
    ELSE LET r == Head(converted)
         IN  IF r.st = "ok"
             THEN ImportRows(Tail(converted), Append(acc, r.val))
             ELSE [st |-> r.st, val |-> <<>>]

content_of_row(fieldnames, row) ==
    LET Content(content_id, title, description, category) ==
            IF IsStr(title) /\ IsStr(description) /\ IsStr(category)
            THEN ImpOk([content_id |-> content_id, title |-> title,
                        description |-> description, category |-> category])
            ELSE ImpRaise
        with_id(id) ==
            IF ~id.ok THEN ImpRaise
            ELSE IF \E k \in {"Title", "Description", "Category"} : ~HasKey(fieldnames, k)
            THEN ImpNone
            ELSE Content(id.val, Lookup(fieldnames, row, "Title"),
                         Lookup(fieldnames, row, "Description"),
                         Lookup(fieldnames, row, "Category"))
    IN  IF ~HasKey(fieldnames, "Content ID") THEN ImpNone
        ELSE with_id(TextToInt(Lookup(fieldnames, row, "Content ID")))

import_content(file) ==
    IF ~file.exists THEN ImpNone
    ELSE LET d == DictReader(file.records)
         IN  ImportRows([i \in 1..Len(d.rows) |->
                            content_of_row(d.fieldnames, d.rows[i])], <<>>)

category_of_row(fieldnames, row) ==
    LET Category(id, name, description) ==
            IF IsStr(name) /\ IsStr(description)
            THEN ImpOk([id |-> id, name |-> name, description |-> description])
            ELSE ImpRaise
        with_id(id) ==
            IF ~id.ok THEN ImpRaise
            ELSE IF \E k \in {"Name", "Description"} : ~HasKey(fieldnames, k)
            THEN ImpNone
            ELSE Category(id.val, Lookup(fieldnames, row, "Name"),
                          Lookup(fieldnames, row, "Description"))
    IN  IF ~HasKey(fieldnames, "Category ID") THEN ImpNone
        ELSE with_id(TextToInt(Lookup(fieldnames, row, "Category ID")))

import_categories(file) ==
    IF ~file.exists THEN ImpNone
    ELSE LET d == DictReader(file.records)
         IN  ImportRows([i \in 1..Len(d.rows) |->
                            category_of_row(d.fieldnames, d.rows[i])], <<>>)

\* ------------------------------------------------------------------------
\* UserGenerator.validate_preferences
\* ------------------------------------------------------------------------

In(x, list) == \E i \in 1..Len(list) : list[i] = x

\* validate_preferences without the fallback
validate_preferences_no_fallback(preferences, category_names) ==
    SelectSeq(preferences, LAMBDA pref : In(pref, category_names))

\* validate_preferences that keeps every entry of a list that is not empty
validate_preferences_unfiltered(preferences, category_names) ==
    IF preferences = <<>> THEN <<category_names[1]>> ELSE preferences

validate_preferences(preferences, category_names) ==
    LET valid_preferences == SelectSeq(preferences, LAMBDA pref : In(pref, category_names))
    IN  IF valid_preferences = <<>> THEN <<category_names[1]>> ELSE valid_preferences

\* UserProfile(...): pydantic accepts the fields only if the texts are
\* strings and preferences is a list of strings
UserProfileValid(u) ==
    /\ IsStr(u.brief_explanation) /\ IsStr(u.profession)
    /\ \A i \in 1..Len(u.preferences) : IsStr(u.preferences[i])

\* import_users, one row.  categories is the list of Category records the
\* caller passes (<<>> for None or an empty list): it goes to
\* validate_preferences as it is, a list of Category objects.
user_of_row(categories, fieldnames, row) ==
    LET UserProfile(u) == IF UserProfileValid(u) THEN ImpOk(u) ELSE ImpRaise
        \* [p for p in preferences if p in valid_preferences], or
        \* valid_preferences when none is left
        kept(valid_preferences, ps) == IF ps = <<>> THEN valid_preferences ELSE ps
        checked(preferences, valid_preferences) ==
            kept(valid_preferences,
                 SelectSeq(preferences, LAMBDA p : In(p, valid_preferences)))
        with_id(id, preferences) ==
            IF ~id.ok THEN ImpRaise
            ELSE IF \E k \in {"Brief Explanation", "Profession"} : ~HasKey(fieldnames, k)
            THEN ImpNone
            ELSE UserProfile([user_id |-> id.val,
                              brief_explanation |->
                                  Lookup(fieldnames, row, "Brief Explanation"),
                              profession |-> Lookup(fieldnames, row, "Profession"),
                              preferences |-> preferences])
        with_preferences(preferences) ==
            IF ~HasKey(fieldnames, "User ID") THEN ImpNone
            ELSE with_id(TextToInt(Lookup(fieldnames, row, "User ID")),
                         IF categories = <<>> THEN preferences
                         ELSE checked(preferences,
                                  validate_preferences(preferences,
                                      [i \in 1..Len(categories) |->
                                          CategoryObj(categories[i])])))
        pieces_of(pieces) ==
            with_preferences([i \in 1..Len(pieces) |-> strip(pieces[i])])
        with_raw(raw) ==
            IF raw = NoneVal THEN ImpRaise ELSE pieces_of(split(raw, ",", <<>>))
    IN  IF ~HasKey(fieldnames, "Preferences") THEN ImpNone
        ELSE with_raw(Lookup(fieldnames, row, "Preferences"))

import_users(file, categories) ==
    IF ~file.exists THEN ImpNone
    ELSE LET d == DictReader(file.records)
         IN  ImportRows([i \in 1..Len(d.rows) |->
                            user_of_row(categories, d.fieldnames, d.rows[i])],
                        <<>>)

\* ------------------------------------------------------------------------
\* Program constants, scaled (the bounds of the category store and of
\* generate_contents)
\* ------------------------------------------------------------------------

\* the cap of generate_contents: 1000 in the source, scaled
MaxContents == 3

\* the default min_count of _load_or_generate_categories: 100 in the source,
\* scaled
DefaultMinCount == 1

\* ------------------------------------------------------------------------
\* The generative oracle
\* ------------------------------------------------------------------------

\* category names the oracle knows; NameC holds a comma
NameA == <<"a">>

NameB == <<"b">>

NameC == <<"a", ",", "b">>

CatNames == {NameA, NameB, NameC}

\* the description the oracle gives a category, a function of the name
CatDescription(name) == <<"d">> \o name

\* the name lists the oracle answers a category request with: empty, with
\* a repeated name, with one or two new names
CatBatchNames ==
    {<<>>, <<NameA>>, <<NameA, NameA>>, <<NameA, NameB>>,
     <<NameC, NameA>>, <<NameB, NameC>>}

\* one answer to a category request: the call fails, or a list of entries
CatBatches ==
    {[fail |-> TRUE, cats |-> <<>>]} \cup
    {[fail |-> FALSE,
      cats |-> [i \in 1..Len(ns) |-> [name |-> ns[i], description |-> CatDescription(ns[i])]]]
        : ns \in CatBatchNames}

\* the answers to the category requests of one call, in order: the oracle
\* is asked at most twice in one call
CatScripts ==
    {<<>>} \cup {<<b>> : b \in CatBatches} \cup {<<b, c>> : b, c \in CatBatches}

\* the titles the oracle gives in turn
ContentTitles == <<<<"t">>, <<"t", ",", "\"">>>>

\* the answer to the i-th content request of a call whose first title is
\* ContentTitles[k + 1]
ContentAnswer(i, k) ==
    [fail |-> FALSE, title |-> ContentTitles[((i + k) % Len(ContentTitles)) + 1],
     description |-> <<"x", "\n">>]

ContentFailure == [fail |-> TRUE, title |-> <<>>, description |-> <<>>]

\* the answers to the content requests of a call that asks for count items,
\* in order: every request answered, or all but the last, which fails
ContentScripts(count) ==
    {[i \in 1..count |-> ContentAnswer(i, k)] : k \in 1..Len(ContentTitles)} \cup
    {[i \in 1..n |-> IF i = n THEN ContentFailure ELSE ContentAnswer(i, k)]
        : n \in 1..count, k \in 1..Len(ContentTitles)}

\* ------------------------------------------------------------------------
\* ContentGenerator: the category store
\* ------------------------------------------------------------------------

\* self._categories: None, or a list
NoCats == [set |-> FALSE, list |-> <<>>]

SomeCats(l) == [set |-> TRUE, list |-> l]

RECURSIVE generate_categories_loop_keep_all(_, _, _)
\* generate_categories_loop that keeps every entry
generate_categories_loop_keep_all(entries, existing_names, categories) ==
    IF entries = <<>> THEN [categories |-> categories, existing_names |-> existing_names]
    ELSE LET cat == Head(entries)
         IN  generate_categories_loop_keep_all(Tail(entries),
                 existing_names \cup {cat.name},
                 Append(categories,
                        [id |-> 0, name |-> cat.name, description |-> cat.description]))

RECURSIVE generate_categories_loop(_, _, _)
\* the for loop of _generate_categories over the entries of one answer
generate_categories_loop(entries, existing_names, categories) ==
    IF entries = <<>> THEN [categories |-> categories, existing_names |-> existing_names]
    ELSE LET cat == Head(entries)
         IN  IF existing_names = {} \/ cat.name \notin existing_names
             THEN generate_categories_loop(Tail(entries),
                      existing_names \cup {cat.name},
                      Append(categories,
                             [id |-> 0, name |-> cat.name, description |-> cat.description]))
             ELSE generate_categories_loop(Tail(entries), existing_names, categories)

\* _generate_categories(existing_names) on one successful answer
generate_categories(existing_names, batch) ==
    generate_categories_loop(batch.cats, existing_names, <<>>)

RECURSIVE categories_while(_, _, _, _, _)
\* the while loop of _load_or_generate_categories: k is the next answer of
\* the script.  st = "more_cats" when the script ends before the loop does.
categories_while(categories, existing_names, min_count, script, k) ==
    IF Len(categories) >= min_count
    THEN [st |-> "ok", categories |-> categories, used |-> k - 1]
    ELSE IF k > Len(script)
    THEN [st |-> "more_cats", categories |-> categories, used |-> k - 1]
    ELSE IF script[k].fail
    THEN [st |-> "raise", categories |-> categories, used |-> k]
    ELSE LET g == generate_categories(existing_names, script[k])
         IN  categories_while(categories \o g.categories, g.existing_names,
                              min_count, script, k + 1)

\* the result of a call that touches the store and the files
Outcome(st, err, val, cache, fsys, ncat, reads, used) ==
    [st |-> st, err |-> err, val |-> val, cache |-> cache, fs |-> fsys,
     ncat |-> ncat, reads |-> reads, used |-> used]

\* _load_or_generate_categories(min_count) of a generator whose
\* self._categories is cache, with the files fsys and config.output_dir dir;
\* script holds the oracle's answers to the category requests it makes
load_or_generate_categories(cache, fsys, dir, min_count, script) ==
    LET csv_path == FileOf(dir \o <<"categories.csv">>)
        tryCsv   == dir # NoDir /\ fsys[csv_path].exists
        reads    == IF tryCsv THEN {csv_path} ELSE {}
        \* the ids are assigned, the list is exported when there is an
        \* output_dir, and stored
        stored(numbered, used) ==
            Outcome("ok", "", numbered, SomeCats(numbered),
                    IF dir # NoDir
                    THEN [fsys EXCEPT
                             ![csv_path] = Written(export_categories_rows(numbered))]
                    ELSE fsys,
                    used, reads, used)
        \* after the while loop.  categories = self._categories or []: the
        \* cached list itself when it is not empty, so that extend() changes
        \* the cache as well
        after_while(w) ==
            IF w.st = "more_cats"
            THEN Outcome("more_cats", "", <<>>, cache, fsys, w.used, reads, w.used)
            ELSE IF w.st = "raise"
            THEN Outcome("raise", "OracleError", <<>>,
                         IF cache.list # <<>> THEN SomeCats(w.categories) ELSE cache,
                         fsys, w.used, reads, w.used)
            ELSE stored([i \in 1..Len(w.categories) |->
                            [w.categories[i] EXCEPT !.id = i]], w.used)
        \* after categories.csv has been tried: imported is what
        \* import_categories returned (ImpNone if it was not called)
        after_import(imported) ==
            IF imported.st = "raise"
            THEN Outcome("raise", "ValueError", <<>>, cache, fsys, 0, reads, 0)
            ELSE IF imported.st = "ok" /\ imported.val # <<>>
                    /\ Len(imported.val) >= min_count
            THEN Outcome("ok", "", imported.val, SomeCats(imported.val), fsys, 0, reads, 0)
            ELSE after_while(
                     categories_while(cache.list,
                         IF cache.list = <<>> THEN {}
                         ELSE {c.name : c \in Range(cache.list)},
                         min_count, script, 1))
    IN  IF cache.set /\ Len(cache.list) >= min_count
        THEN Outcome("ok", "", cache.list, cache, fsys, 0, {}, 0)
        ELSE after_import(IF tryCsv THEN import_categories(fsys[csv_path]) ELSE ImpNone)

\* ------------------------------------------------------------------------
\* ContentGenerator.generate_contents
\* ------------------------------------------------------------------------

\* contents[:count]
Take(l, n) == SubSeq(l, 1, Min(n, Len(l)))

\* the file _try_load_contents looks for
contents_file_path(dir, csv_path) ==
    FileOf(resolve_path(IF csv_path = NoPath THEN <<"contents.csv">> ELSE csv_path,
                        Config(dir)))

\* _try_load_contents: [st, val, reads]; st = "none" for None
try_load_contents(fsys, dir, count, csv_path) ==
    LET file_path == contents_file_path(dir, csv_path)
        reads     == IF fsys[file_path].exists THEN {file_path} ELSE {}
        \* contents is what import_content returned
        loaded(contents) ==
            IF contents.st = "raise" THEN [st |-> "raise", val |-> <<>>, reads |-> reads]
            ELSE IF contents.st = "ok" /\ contents.val # <<>> /\ Len(contents.val) >= count
            THEN [st |-> "ok", val |-> Take(contents.val, count), reads |-> reads]
            ELSE [st |-> "none", val |-> <<>>, reads |-> reads]
    IN  loaded(IF fsys[file_path].exists THEN import_content(fsys[file_path])
               ELSE ImpNone)

RECURSIVE contents_for_zero_based(_, _, _, _, _)
\* contents_for with content_id = i in place of i + 1
contents_for_zero_based(categories, count, answers, i, contents) ==
    IF i >= count THEN [st |-> "ok", val |-> contents, ncontent |-> i]
    ELSE IF i + 1 > Len(answers) THEN [st |-> "more_contents", val |-> <<>>, ncontent |-> i]
    ELSE IF answers[i + 1].fail THEN [st |-> "raise", val |-> <<>>, ncontent |-> i + 1]
    ELSE LET category == categories[(i % Len(categories)) + 1]
         IN  contents_for_zero_based(categories, count, answers, i + 1,
                 Append(contents,
                        [content_id  |-> i,
                         title       |-> answers[i + 1].title,
                         description |-> answers[i + 1].description,
                         category    |-> category.name]))

RECURSIVE contents_for_first_category(_, _, _, _, _)
\* contents_for that labels every item with the first category
contents_for_first_category(categories, count, answers, i, contents) ==
    IF i >= count THEN [st |-> "ok", val |-> contents, ncontent |-> i]
    ELSE IF i + 1 > Len(answers) THEN [st |-> "more_contents", val |-> <<>>, ncontent |-> i]
    ELSE IF answers[i + 1].fail THEN [st |-> "raise", val |-> <<>>, ncontent |-> i + 1]
    ELSE LET category == categories[1]
         IN  contents_for_first_category(categories, count, answers, i + 1,
                 Append(contents,
                        [content_id  |-> i + 1,
                         title       |-> answers[i + 1].title,
                         description |-> answers[i + 1].description,
                         category    |-> category.name]))

RECURSIVE contents_for(_, _, _, _, _)
\* the for loop of generate_contents from index i (0-based) on
contents_for(categories, count, answers, i, contents) ==
    IF i >= count THEN [st |-> "ok", val |-> contents, ncontent |-> i]
    ELSE IF i + 1 > Len(answers) THEN [st |-> "more_contents", val |-> <<>>, ncontent |-> i]
    ELSE IF answers[i + 1].fail THEN [st |-> "raise", val |-> <<>>, ncontent |-> i + 1]
    ELSE LET category == categories[(i % Len(categories)) + 1]
         IN  contents_for(categories, count, answers, i + 1,
                 Append(contents,
                        [content_id  |-> i + 1,
                         title       |-> answers[i + 1].title,
                         description |-> answers[i + 1].description,
                         category    |-> category.name]))

\* generate_contents that looks at the limit only after the reuse attempt
generate_contents_late_limit(cache, fsys, dir, count, reuse_file, csv_path, script, answers) ==
    LET early(st, err, val, reads) ==
            Outcome(st, err, val, cache, fsys, 0, reads, 0) @@ [ncontent |-> 0]
        made(cats, reads, m) ==
            [cats EXCEPT !.st = m.st,
                         !.err = IF m.st = "raise" THEN "OracleError" ELSE "",
                         !.val = m.val,
                         !.reads = cats.reads \cup reads]
            @@ [ncontent |-> m.ncontent]
        generated(cats, reads) ==
            IF cats.st # "ok"
            THEN [cats EXCEPT !.reads = cats.reads \cup reads] @@ [ncontent |-> 0]
            ELSE made(cats, reads, contents_for(cats.val, count, answers, 0, <<>>))
        after_load(loaded) ==
            IF loaded.st = "raise"
            THEN early("raise", "ValueError", <<>>, loaded.reads)
            ELSE IF loaded.st = "ok" /\ loaded.val # <<>>
            THEN early("ok", "", loaded.val, loaded.reads)
            ELSE IF count > MaxContents
            THEN early("raise", "ContentGenerationError", <<>>, loaded.reads)
            ELSE generated(load_or_generate_categories(cache, fsys, dir,
                                                       DefaultMinCount, script),
                           loaded.reads)
    IN  after_load(IF reuse_file THEN try_load_contents(fsys, dir, count, csv_path)
                   ELSE [st |-> "none", val |-> <<>>, reads |-> {}])

\* generate_contents(count, reuse_file, csv_path): the outcome, with the
\* number of content requests in ncontent
generate_contents(cache, fsys, dir, count, reuse_file, csv_path, script, answers) ==
    LET \* an outcome that leaves the store and the files alone
        early(st, err, val, reads) ==
            Outcome(st, err, val, cache, fsys, 0, reads, 0) @@ [ncontent |-> 0]
        \* after the for loop has ended in m; cats is the outcome of the
        \* categories call
        made(cats, reads, m) ==
            [cats EXCEPT !.st = m.st,
                         !.err = IF m.st = "raise" THEN "OracleError" ELSE "",
                         !.val = m.val,
                         !.reads = cats.reads \cup reads]
            @@ [ncontent |-> m.ncontent]
        \* from the categories call on
        generated(cats, reads) ==
            IF cats.st # "ok"
            THEN [cats EXCEPT !.reads = cats.reads \cup reads] @@ [ncontent |-> 0]
            ELSE made(cats, reads, contents_for(cats.val, count, answers, 0, <<>>))
        \* from the reuse attempt on: loaded is what _try_load_contents
        \* returned ("none" if it was not called)
        after_load(loaded) ==
            IF loaded.st = "raise"
            THEN early("raise", "ValueError", <<>>, loaded.reads)
            ELSE IF loaded.st = "ok" /\ loaded.val # <<>>
            THEN early("ok", "", loaded.val, loaded.reads)
            ELSE generated(load_or_generate_categories(cache, fsys, dir,
                                                       DefaultMinCount, script),
                           loaded.reads)
    IN  IF count > MaxContents
        THEN early("raise", "ContentGenerationError", <<>>, {})
        ELSE after_load(IF reuse_file THEN try_load_contents(fsys, dir, count, csv_path)
                        ELSE [st |-> "none", val |-> <<>>, reads |-> {}])

\* ------------------------------------------------------------------------
\* The process-wide generator of the random module
\* ------------------------------------------------------------------------
\* The generator is a state of RngModulus values; a draw reads the state and
\* moves it on, random.seed(a) puts it in the state that a alone selects.

\* the number of generator states
RngModulus == 3

RngStates == 0..(RngModulus - 1)

\* random.seed(a) for an int a: abs(a) selects the state
rng_seed(a) == ((IF a < 0 THEN -a ELSE a) + 2) % RngModulus

\* a draw below n >= 1: [val, state].  The value is spread so that the
\* draws of few states reach both ends of a range of six or seven values.
rng_below(r, n) == [val |-> (r * 5 + 6) % n, state |-> (r + 1) % RngModulus]

\* random.randint(a, b)
rng_randint(r, a, b) == LET d == rng_below(r, b - a + 1)
                        IN  [val |-> a + d.val, state |-> d.state]

\* random.choice(seq), seq not empty
rng_choice(r, seq) == LET d == rng_below(r, Len(seq))
                      IN  [val |-> seq[d.val + 1], state |-> d.state]

\* ------------------------------------------------------------------------
\* UserGenerator
\* ------------------------------------------------------------------------

\* a preference no catalogue of the oracle holds
NameX == <<"z">>

\* the preference lists the oracle answers the user requests with, in turn
UserPrefLists == <<<<NameX, NameC>>, <<>>, <<NameB, NameA>>>>

\* the answer to the i-th user request of a call whose first preference list
\* is UserPrefLists[k + 1]
UserAnswer(i, k) ==
    [kind |-> "ok", brief_explanation |-> <<"e">>, profession |-> <<"f">>,
     preferences |-> UserPrefLists[((i + k) % Len(UserPrefLists)) + 1]]

\* an answer that is no profile: the call fails (the arguments not being
\* JSON included), or the arguments lack a key
UserFailures ==
    {[kind |-> k, brief_explanation |-> <<>>, profession |-> <<>>, preferences |-> <<>>]
        : k \in {"fail", "no_key"}}

\* one answer to a user request
UserAnswers ==
    UserFailures \cup {UserAnswer(1, k) : k \in 1..Len(UserPrefLists)}

\* the answers to the user requests of a call that asks for count users, in
\* order: every request answered with a profile, or all but the last
UserScripts(count) ==
    {[i \in 1..count |-> UserAnswer(i, k)] : k \in 1..Len(UserPrefLists)} \cup
    {[i \in 1..n |-> IF i = n THEN f ELSE UserAnswer(i, k)]
        : n \in 1..count, k \in 1..Len(UserPrefLists), f \in UserFailures}

\* the state a call starts from
Start(cache, fsys) == Outcome("ok", "", <<>>, cache, fsys, 0, {}, 0)

\* load_after that asks for one category more than the default
load_after_more(o, dir, script) ==
    LET after(l) == [l EXCEPT !.ncat = o.ncat + l.ncat, !.reads = o.reads \cup l.reads,
                              !.used = o.used + l.used]
    IN  after(load_or_generate_categories(o.cache, o.fs, dir, DefaultMinCount + 1,
                                          SubSeq(script, o.used + 1, Len(script))))

\* _load_or_generate_categories() called after the steps that led to o: the
\* requests, reads and answers used add up
load_after(o, dir, script) ==
    LET after(l) == [l EXCEPT !.ncat = o.ncat + l.ncat, !.reads = o.reads \cup l.reads,
                              !.used = o.used + l.used]
    IN  after(load_or_generate_categories(o.cache, o.fs, dir, DefaultMinCount,
                                          SubSeq(script, o.used + 1, Len(script))))

\* generate_user(user_id) after the steps that led to o, with the generator
\* in state r; answer is <<>> or holds the oracle's answer to the request
generate_user(o, dir, r, user_id, script, answer) ==
    LET \* cats is the outcome of the categories call, rr the state of the
        \* generator, n the number of user requests
        out(cats, st, err, val, rr, n) ==
            [cats EXCEPT !.st = st, !.err = err, !.val = val] @@ [rng |-> rr, nuser |-> n]
        \* from UserProfile(...) on
        built(cats, rr, user) ==
            IF ~UserProfileValid(user) THEN out(cats, "raise", "ValueError", <<>>, rr, 1)
            ELSE out(cats, "ok", "", user, rr, 1)
        \* from the request on; rr is the state random.choice left
        requested(cats, category_names, rr) ==
            IF answer = <<>> THEN out(cats, "more_users", "", <<>>, rr, 0)
            ELSE IF answer[1].kind = "fail"
            THEN out(cats, "raise", "OracleError", <<>>, rr, 1)
            ELSE IF answer[1].kind = "no_key"
            THEN out(cats, "raise", "KeyError", <<>>, rr, 1)
            ELSE built(cats, rr,
                     [user_id |-> user_id,
                      brief_explanation |-> answer[1].brief_explanation,
                      profession |-> answer[1].profession,
                      preferences |-> validate_preferences(answer[1].preferences,
                                                           category_names)])
        named(cats, category_names) ==
            requested(cats, category_names, rng_choice(r, category_names).state)
        \* after the categories call
        with_categories(cats) ==
            IF cats.st # "ok" THEN cats @@ [rng |-> r, nuser |-> 0]
            ELSE named(cats, [i \in 1..Len(cats.val) |-> cats.val[i].name])
    IN  with_categories(load_after(o, dir, script))

RECURSIVE users_for_skipping(_, _, _, _, _, _, _, _)
\* users_for that leaves out a user whose generation fails and goes on
users_for_skipping(o, dir, r, count, script, answers, i, users) ==
    LET next(g) ==
            IF g.st = "more_cats" \/ g.st = "more_users"
            THEN [g EXCEPT !.val = <<>>, !.nuser = i + g.nuser]
            ELSE users_for_skipping([g EXCEPT !.val = <<>>, !.st = "ok", !.err = ""],
                                    dir, g.rng, count, script, answers, i + 1,
                                    IF g.st = "ok" THEN Append(users, g.val) ELSE users)
    IN  IF i >= count
        THEN Outcome("ok", "", users, o.cache, o.fs, o.ncat, o.reads, o.used)
             @@ [rng |-> r, nuser |-> i]
        ELSE next(generate_user(o, dir, r, i + 1, script,
                      IF i + 1 <= Len(answers) THEN <<answers[i + 1]>> ELSE <<>>))

RECURSIVE users_for(_, _, _, _, _, _, _, _)
\* [self.generate_user(i + 1) for i in range(count)] from index i on
users_for(o, dir, r, count, script, answers, i, users) ==
    LET \* generate_user(i + 1) has ended in g
        next(g) ==
            IF g.st # "ok"
            THEN [g EXCEPT !.val = <<>>, !.nuser = i + g.nuser]
            ELSE users_for([g EXCEPT !.val = <<>>], dir, g.rng, count, script, answers,
                           i + 1, Append(users, g.val))
    IN  IF i >= count
        THEN Outcome("ok", "", users, o.cache, o.fs, o.ncat, o.reads, o.used)
             @@ [rng |-> r, nuser |-> i]
        ELSE next(generate_user(o, dir, r, i + 1, script,
                      IF i + 1 <= Len(answers) THEN <<answers[i + 1]>> ELSE <<>>))

\* the file generate_users falls back to: Path(csv_path if csv_path else
\* "users.csv").resolve(), csv_path being output_dir / "users.csv" when it
\* was None and an output_dir is configured
users_file_path(dir, csv_path) ==
    LET has_output_dir == csv_path = NoPath /\ dir # NoDir
    IN  FileOf(IF has_output_dir THEN dir \o <<"users.csv">>
               ELSE IF csv_path # NoPath THEN csv_path
               ELSE <<"users.csv">>)

\* generate_users(count, reuse_file, csv_path) of a generator whose category
\* store is cache
generate_users(cache, fsys, dir, r, count, reuse_file, csv_path, script, answers) ==
    LET has_output_dir == csv_path = NoPath /\ dir # NoDir
        dir_path  == FileOf(dir \o <<"users.csv">>)
        file_path == users_file_path(dir, csv_path)
        \* an outcome that makes no user request
        done(o, st, err, val) ==
            [o EXCEPT !.st = st, !.err = err, !.val = val] @@ [rng |-> r, nuser |-> 0]
        \* users and len(users) >= count
        hit(users) == users.st = "ok" /\ users.val # <<>> /\ Len(users.val) >= count
        \* the fallback once import_users(file_path, categories) has returned
        after_import(o, users) ==
            IF users.st = "raise" THEN done(o, "raise", "ValueError", <<>>)
            ELSE IF hit(users) THEN done(o, "ok", "", Take(users.val, count))
            ELSE users_for(o, dir, r, count, script, answers, 0, <<>>)
        \* the fallback once its categories call has ended in cats
        after_categories(cats) ==
            IF cats.st # "ok" THEN done(cats, cats.st, cats.err, <<>>)
            ELSE after_import(
                     [cats EXCEPT !.val = <<>>,
                                  !.reads = cats.reads \cup
                                      (IF cats.fs[file_path].exists THEN {file_path}
                                       ELSE {})],
                     import_users(cats.fs[file_path], cats.val))
        \* from "Fall back to default behavior" on, after the steps that led
        \* to o
        fallback(o, reuse) ==
            IF reuse THEN after_categories(load_after(o, dir, script))
            ELSE users_for(o, dir, r, count, script, answers, 0, <<>>)
        \* the attempt on output_dir/users.csv once import_users has returned
        after_dir_import(o, users) ==
            IF users.st = "raise" THEN done(o, "raise", "ValueError", <<>>)
            ELSE IF hit(users) THEN done(o, "ok", "", Take(users.val, count))
            ELSE fallback(o, TRUE)
        \* the attempt on output_dir/users.csv once its categories call has
        \* ended in cats
        after_dir_categories(cats) ==
            IF cats.st # "ok" THEN done(cats, cats.st, cats.err, <<>>)
            ELSE after_dir_import([cats EXCEPT !.reads = cats.reads \cup {dir_path}],
                                  import_users(cats.fs[dir_path], cats.val))
    IN  IF reuse_file /\ has_output_dir /\ fsys[dir_path].exists
        THEN after_dir_categories(load_after(Start(cache, fsys), dir, script))
        ELSE fallback(Start(cache, fsys), reuse_file)

\* ------------------------------------------------------------------------
\* QueryGenerator.simulate_engagement
\* ------------------------------------------------------------------------

\* clicks / len(results): the quotient as numerator and denominator
Ratio(num, den) == [num |-> num, den |-> den]

\* simulate_engagement that draws without seeding the generator
simulate_engagement_unseeded(r, user, results) ==
    LET drawn  == rng_randint(r, 0, Min(5, Len(results)))
        clicks == drawn.val
        ctr    == IF results # <<>> THEN Ratio(clicks, Len(results)) ELSE Ratio(0, 1)
    IN  [val |-> <<clicks, ctr>>, rng |-> drawn.state]

\* simulate_engagement that draws up to the number of results
simulate_engagement_uncapped(r, user, results) ==
    LET seeded == rng_seed(user.user_id)
        drawn  == rng_randint(seeded, 0, Len(results))
        clicks == drawn.val
        ctr    == IF results # <<>> THEN Ratio(clicks, Len(results)) ELSE Ratio(0, 1)
    IN  [val |-> <<clicks, ctr>>, rng |-> drawn.state]

\* simulate_engagement(user, results) with the generator in state r:
\* (clicks, ctr) and the state the generator is left in
simulate_engagement(r, user, results) ==
    LET seeded == rng_seed(user.user_id)
        drawn  == rng_randint(seeded, 0, Min(5, Len(results)))
        clicks == drawn.val
        ctr    == IF results # <<>> THEN Ratio(clicks, Len(results)) ELSE Ratio(0, 1)
    IN  [val |-> <<clicks, ctr>>, rng |-> drawn.state]

\* ------------------------------------------------------------------------
\* QueryGenerator.generate_query, generate_queries
\* ------------------------------------------------------------------------

\* the most queries asked for in one call
MaxQueries == 4

\* the answers to the query requests of a call that asks for count queries,
\* in order: every request answered with a query, or all but the last, which
\* fails (the arguments not being JSON included) or lacks a key.  An answer
\* holds the clock reading the query is stamped with.
QueryScripts(count) ==
    LET texts == <<<<"q">>, <<"q", "\"">>, <<>>>>
        answer(i, k) ==
            [kind |-> "ok", query_content |-> texts[((i + k) % Len(texts)) + 1],
             category |-> IF (i + k) % 2 = 0 THEN NameA ELSE NameX, now |-> (i + k) % 2]
        failures ==
            {[kind |-> k, query_content |-> <<>>, category |-> <<>>, now |-> 0]
                : k \in {"fail", "no_key"}}
    IN  {[i \in 1..count |-> answer(i, k)] : k \in 1..Len(texts)} \cup
        {[i \in 1..n |-> IF i = n THEN f ELSE answer(i, k)]
            : n \in 1..count, k \in 1..Len(texts), f \in failures}

\* generate_query(user, query_id) with the oracle's answer: the SearchQuery
\* or the error raised
generate_query(user, query_id, answer) ==
    IF answer.kind = "fail" THEN [st |-> "raise", err |-> "OracleError", val |-> <<>>]
    ELSE IF answer.kind = "no_key" THEN [st |-> "raise", err |-> "KeyError", val |-> <<>>]
    ELSE [st |-> "ok", err |-> "",
          val |-> [query_id |-> query_id, user_id |-> user.user_id,
                   query_content |-> answer.query_content,
                   category |-> answer.category, timestamp |-> answer.now]]

RECURSIVE queries_for_zero_based(_, _, _, _, _)
\* queries_for with query_id = i in place of i + 1
queries_for_zero_based(user, count, answers, i, queries) ==
    LET next(q) ==
            IF q.st # "ok" THEN [q EXCEPT !.val = <<>>] @@ [nquery |-> i + 1]
            ELSE queries_for_zero_based(user, count, answers, i + 1, Append(queries, q.val))
    IN  IF i >= count THEN [st |-> "ok", err |-> "", val |-> queries, nquery |-> i]
        ELSE IF i + 1 > Len(answers)
        THEN [st |-> "more_queries", err |-> "", val |-> <<>>, nquery |-> i]
        ELSE next(generate_query(user, i, answers[i + 1]))

RECURSIVE queries_for(_, _, _, _, _)
\* [self.generate_query(user, i + 1) for i in range(count)] from index i on
queries_for(user, count, answers, i, queries) ==
    LET next(q) ==
            IF q.st # "ok" THEN [q EXCEPT !.val = <<>>] @@ [nquery |-> i + 1]
            ELSE queries_for(user, count, answers, i + 1, Append(queries, q.val))
    IN  IF i >= count THEN [st |-> "ok", err |-> "", val |-> queries, nquery |-> i]
        ELSE IF i + 1 > Len(answers)
        THEN [st |-> "more_queries", err |-> "", val |-> <<>>, nquery |-> i]
        ELSE next(generate_query(user, i + 1, answers[i + 1]))

\* generate_queries(user, count)
generate_queries(user, count, answers) == queries_for(user, count, answers, 0, <<>>)

\* ------------------------------------------------------------------------
\* The search-log step of the pipeline (examples/library_book_small.py)
\* ------------------------------------------------------------------------

\* ElasticsearchEngine.search on the answer of the client: the call fails, or
\* it holds hits, each converted with SearchResult(content_id, title,
\* relevance_score), which leaves out the url that the class requires; every
\* exception becomes a SearchEngineError
search(answer) ==
    LET SearchResult(r) ==
            IF IsStr(r.title) /\ IsStr(r.url) THEN ImpOk(r) ELSE ImpRaise
        converted(rs) ==
            IF rs.st = "ok" THEN [st |-> "ok", err |-> "", val |-> rs.val]
            ELSE [st |-> "raise", err |-> "SearchEngineError", val |-> <<>>]
    IN  IF answer.fail THEN [st |-> "raise", err |-> "SearchEngineError", val |-> <<>>]
        ELSE converted(ImportRows(
                 [i \in 1..answer.hits |->
                     SearchResult([content_id |-> i, title |-> <<"t">>, url |-> NoneVal,
                                   relevance_score |-> <<"1", ".", "0">>])], <<>>))

RECURSIVE search_logs_for(_, _, _, _, _, _, _)
\* the loop of generate_search_logs over the users from index i (1-based)
\* on: one query per user, and one log per query; es is TRUE for an engine
\* and FALSE for None
search_logs_for(es, users, qanswers, sanswers, i, queries, logs) ==
    LET SearchLog(query, results) ==
            [query_id |-> query.query_id, user_id |-> users[i].user_id,
             search_query |-> query.query_content, search_results |-> results,
             clicks |-> NoneVal, ctr |-> NoneVal]
        searched(query, found) ==
            IF found.st # "ok"
            THEN [st |-> "raise", err |-> found.err, queries |-> <<>>, logs |-> <<>>]
            ELSE search_logs_for(es, users, qanswers, sanswers, i + 1,
                                 Append(queries, query),
                                 Append(logs, SearchLog(query, found.val)))
        asked(user_queries) ==
            IF user_queries.st # "ok"
            THEN [st |-> "raise", err |-> user_queries.err, queries |-> <<>>, logs |-> <<>>]
            ELSE searched(user_queries.val[1],
                          IF es THEN search(sanswers[i])
                          ELSE [st |-> "ok", err |-> "", val |-> <<>>])
    IN  IF i > Len(users)
        THEN [st |-> "ok", err |-> "", queries |-> queries, logs |-> logs]
        ELSE asked(generate_queries(users[i], 1, <<qanswers[i]>>))

\* generate_search_logs(es, users, config): the outcome and the files after it
generate_search_logs(es, users, qanswers, sanswers, fsys) ==
    LET exported(o) ==
            IF o.st # "ok" THEN o @@ [fs |-> fsys]
            ELSE o @@ [fs |->
                   [fsys EXCEPT
                      ![FileOf(resolve_path(OutDir \o <<"queries.csv">>, NoConfig))] =
                          Written(export_search_queries_rows(o.queries)),
                      ![FileOf(resolve_path(OutDir \o <<"logs.csv">>, NoConfig))] =
                          Written(export_search_logs_rows(o.logs))]]
    IN  exported(search_logs_for(es, users, qanswers, sanswers, 1, <<>>, <<>>))

\* ------------------------------------------------------------------------
\* State
\* ------------------------------------------------------------------------

VARIABLES
    output_dir,   \* config.output_dir of the run: NoDir or a directory
    fs,           \* the files: location -> file
    categories,   \* self._categories of the ContentGenerator ("content") and
                  \* of the one inside the UserGenerator ("user")
    rng,          \* the state of the process-wide random generator
    ret           \* the last operation: its arguments and its result

vars == <<output_dir, fs, categories, rng, ret>>

Gens == {"content", "user"}

\* the record of an operation
Ret(op, count, reuse, path, o, ncontent, nuser) ==
    [op |-> op, count |-> count, reuse |-> reuse, path |-> path,
     st |-> o.st, err |-> o.err, val |-> o.val,
     ncat |-> o.ncat, ncontent |-> ncontent, nuser |-> nuser, reads |-> o.reads]

NoRet ==
    [op |-> "none", count |-> 0, reuse |-> FALSE, path |-> NoPath,
     st |-> "ok", err |-> "", val |-> <<>>,
     ncat |-> 0, ncontent |-> 0, nuser |-> 0, reads |-> {}]

EmptyFs == [l \in Locs |-> Absent]

\* the contents.csv a previous run may have left: the export of one item,
\* of more items than generate_contents accepts, and of no item
PersistedContents ==
    {[i \in 1..n |-> [content_id |-> i + 4, title |-> <<"p", "\"">>,
                      description |-> <<"q", ",">>,
                      category |-> IF i = 1 THEN NameC ELSE NameA]]
        : n \in {0, 1, MaxContents + 1}}

\* the categories.csv a previous run may have left
PersistedCategories ==
    {<<[id |-> 1, name |-> NameB, description |-> CatDescription(NameB)],
       [id |-> 2, name |-> NameC, description |-> CatDescription(NameC)]>>}

ContentFiles ==
    {Absent} \cup {Written(export_content_rows(c)) : c \in PersistedContents}

CategoryFiles ==
    {Absent} \cup {Written(export_categories_rows(c)) : c \in PersistedCategories}

\* what is on disk when a run starts, at the locations the configuration
\* names
InitialFs(dir) ==
    {[EmptyFs EXCEPT ![FileOf(dir \o <<"contents.csv">>)] = c,
                     ![FileOf(dir \o <<"categories.csv">>)] = k]
        : c \in ContentFiles, k \in IF dir = NoDir THEN {Absent} ELSE CategoryFiles}

\* a run of the content generator over what a previous run left
InitContent ==
    /\ output_dir \in {NoDir, OutDir}
    /\ fs \in InitialFs(output_dir)
    /\ categories = [g \in Gens |-> NoCats]
    /\ rng = 0
    /\ ret = NoRet

\* the category scripts that a loop for min_count categories reads to the end
ScriptsFor(cache, min_count) ==
    {s \in CatScripts :
        LET w == categories_while(cache.list, {c.name : c \in Range(cache.list)},
                                  min_count, s, 1)
        IN  w.st # "more_cats" /\ w.used = Len(s)}

\* the csv_path arguments of generate_contents
ContentPaths == {NoPath}

\* ContentGenerator.generate_contents(count, reuse_file, csv_path): the
\* oracle's answers are drawn as far as the call asks for them
GenerateContents ==
    /\ \E count \in 0..(MaxContents + 1), reuse_file \in BOOLEAN, csv_path \in ContentPaths :
        LET call(script, answers) ==
                generate_contents(categories["content"], fs, output_dir,
                                  count, reuse_file, csv_path, script, answers)
            scripts ==
                IF call(<<>>, <<>>).st = "more_cats"
                THEN ScriptsFor(categories["content"], DefaultMinCount)
                ELSE {<<>>}
        IN  \E script \in scripts :
              \E answers \in (IF call(script, <<>>).st = "more_contents"
                              THEN ContentScripts(count) ELSE {<<>>}) :
                \E o \in {call(script, answers)} :
                    /\ categories' = [categories EXCEPT !["content"] = o.cache]
                    /\ fs' = o.fs
                    /\ ret' = Ret("generate_contents", count, reuse_file, csv_path,
                                  o, o.ncontent, 0)
    /\ UNCHANGED <<output_dir, rng>>

NextContent == GenerateContents

SpecContent == InitContent /\ [][NextContent]_vars

\* ------------------------------------------------------------------------
\* Calls of the category store of the two generators of a run
\* ------------------------------------------------------------------------

\* a run over the categories.csv a previous run may have left
InitCategories ==
    /\ output_dir \in {NoDir, OutDir}
    /\ fs \in {f \in InitialFs(output_dir) : ~f[FileOf(output_dir \o <<"contents.csv">>)].exists}
    /\ categories = [g \in Gens |-> NoCats]
    /\ rng = 0
    /\ ret = NoRet

\* the most categories a call asks for
MaxMinCount == 3

\* _load_or_generate_categories(min_count) of the ContentGenerator
\* ("content") or of the one the UserGenerator holds ("user")
LoadOrGenerateCategories ==
    /\ \E g \in Gens, min_count \in 0..MaxMinCount :
        LET call(script) ==
                load_or_generate_categories(categories[g], fs, output_dir, min_count, script)
        IN  \E script \in (IF call(<<>>).st = "more_cats"
                           THEN ScriptsFor(categories[g], min_count) ELSE {<<>>}) :
              \E o \in {call(script)} :
                /\ categories' = [categories EXCEPT ![g] = o.cache]
                /\ fs' = o.fs
                /\ ret' = [op |-> "load_or_generate_categories", g |-> g,
                           min_count |-> min_count, script |-> script,
                           st |-> o.st, err |-> o.err, val |-> o.val,
                           ncat |-> o.ncat, reads |-> o.reads]
    /\ UNCHANGED <<output_dir, rng>>

NextCategories == LoadOrGenerateCategories

SpecCategories == InitCategories /\ [][NextCategories]_vars

\* ------------------------------------------------------------------------
\* Runs of the user generator and of the engagement simulation
\* ------------------------------------------------------------------------

\* the users a previous run may have exported to users.csv
PersistedUsers ==
    LET u(id, ps) == [user_id |-> id, brief_explanation |-> <<"e", ",">>,
                      profession |-> <<"f">>, preferences |-> ps]
    IN  {<<>>, <<u(1, <<NameB>>)>>, <<u(1, <<NameB>>), u(2, <<NameA, NameB>>)>>}

UserFiles ==
    {Absent} \cup {Written(export_users_rows(us)) : us \in PersistedUsers}

InitialUserFs(dir) ==
    {[EmptyFs EXCEPT ![FileOf(dir \o <<"users.csv">>)] = u,
                     ![FileOf(dir \o <<"categories.csv">>)] = k]
        : u \in UserFiles, k \in IF dir = NoDir THEN {Absent} ELSE CategoryFiles \ {Absent}}

InitUsers ==
    /\ output_dir \in {NoDir, OutDir}
    /\ fs \in InitialUserFs(output_dir)
    /\ categories = [g \in Gens |-> NoCats]
    /\ rng = 0
    /\ ret = NoRet

\* the number of users a call asks for, at most
MaxUsers == 2

\* the csv_path arguments of generate_users
UserPaths == {NoPath}

\* UserGenerator.generate_users(count, reuse_file, csv_path)
GenerateUsers ==
    /\ \E count \in 0..MaxUsers, reuse_file \in BOOLEAN, csv_path \in UserPaths :
        LET call(script, answers) ==
                generate_users(categories["user"], fs, output_dir, rng,
                               count, reuse_file, csv_path, script, answers)
            scripts ==
                IF call(<<>>, <<>>).st = "more_cats"
                THEN ScriptsFor(categories["user"], DefaultMinCount)
                ELSE {<<>>}
        IN  \E script \in scripts :
              \E answers \in (IF call(script, <<>>).st = "more_users"
                              THEN UserScripts(count) ELSE {<<>>}) :
                \E o \in {call(script, answers)} :
                    /\ categories' = [categories EXCEPT !["user"] = o.cache]
                    /\ fs' = o.fs
                    /\ rng' = o.rng
                    /\ ret' = Ret("generate_users", count, reuse_file, csv_path,
                                  o, 0, o.nuser)
    /\ UNCHANGED output_dir

NextUsers == GenerateUsers

SpecUsers == InitUsers /\ [][NextUsers]_vars

\* ------------------------------------------------------------------------
\* Runs of both generators over files that hold nothing to reuse
\* ------------------------------------------------------------------------

\* the rows of a file without its k-th column
WithoutColumn(rows, k) ==
    [i \in 1..Len(rows) |->
        [j \in 1..(Len(rows[i]) - 1) |-> rows[i][IF j < k THEN j ELSE j + 1]]]

\* A run in an output directory that holds the categories of a previous run;
\* contents.csv and users.csv are both absent, both without their first
\* column, both without their last column, or both with fewer entries than
\* a call asks for
InitRun ==
    /\ output_dir = OutDir
    /\ fs \in {[EmptyFs EXCEPT ![FileOf(output_dir \o <<"categories.csv">>)] = k,
                               ![FileOf(output_dir \o <<"contents.csv">>)] = f[1],
                               ![FileOf(output_dir \o <<"users.csv">>)] = f[2]]
                : k \in CategoryFiles \ {Absent},
                  f \in {<<Absent, Absent>>}
                        \cup {<<Written(export_content_rows(Take(p, 1))),
                                Written(export_users_rows(<<>>))>>
                                 : p \in {q \in PersistedContents : Len(q) > 1}}
                        \cup {<<Written(WithoutColumn(export_content_rows(Take(p, 1)), c)),
                                Written(WithoutColumn(export_users_rows(Take(q, 1)), c))>>
                                 : p \in {q \in PersistedContents : Len(q) > 1},
                                   q \in {r \in PersistedUsers : Len(r) > 1},
                                   c \in {1, 4}}}
    /\ categories = [g \in Gens |-> NoCats]
    /\ rng = 0
    /\ ret = NoRet

NextRun == GenerateContents \/ GenerateUsers

SpecRun == InitRun /\ [][NextRun]_vars

\* ------------------------------------------------------------------------
\* Runs of the engagement simulation among single user generations
\* ------------------------------------------------------------------------

InitEngage ==
    /\ output_dir = NoDir
    /\ fs = EmptyFs
    /\ categories = [g \in Gens |-> NoCats]
    /\ rng = 0
    /\ ret = NoRet

\* the user_id arguments of generate_user
UserIds == 1..2

\* UserGenerator.generate_user(user_id)
GenerateUser ==
    /\ \E user_id \in UserIds :
        LET call(script, answer) ==
                generate_user(Start(categories["user"], fs), output_dir, rng,
                              user_id, script, answer)
            scripts ==
                IF call(<<>>, <<>>).st = "more_cats"
                THEN ScriptsFor(categories["user"], DefaultMinCount)
                ELSE {<<>>}
        IN  \E script \in scripts :
              \E answer \in (IF call(script, <<>>).st = "more_users"
                             THEN {<<a>> : a \in UserAnswers} ELSE {<<>>}) :
                \E o \in {call(script, answer)} :
                    /\ categories' = [categories EXCEPT !["user"] = o.cache]
                    /\ fs' = o.fs
                    /\ rng' = o.rng
                    /\ ret' = [op |-> "generate_user", user_id |-> user_id,
                               st |-> o.st, err |-> o.err, val |-> o.val,
                               ncat |-> o.ncat, nuser |-> o.nuser]
    /\ UNCHANGED output_dir

\* the longest result list of a simulation
MaxResults == 6

\* a result list of n entries
Results(n) ==
    [i \in 1..n |-> [content_id |-> i, title |-> <<"t">>, url |-> <<"u">>,
                     relevance_score |-> NoneVal]]

\* the users whose engagement is simulated
EngagedUsers ==
    {[user_id |-> id, brief_explanation |-> <<"e">>, profession |-> <<"f">>,
      preferences |-> ps] : id \in UserIds, ps \in {<<NameA>>, <<NameB, NameA>>}}

\* QueryGenerator.simulate_engagement(user, results)
SimulateEngagement ==
    /\ \E user \in EngagedUsers, n \in 0..MaxResults :
        LET e == simulate_engagement(rng, user, Results(n))
        IN  /\ rng' = e.rng
            /\ ret' = [op |-> "simulate_engagement", user |-> user, nresults |-> n,
                       rng_before |-> rng, val |-> e.val]
    /\ UNCHANGED <<output_dir, fs, categories>>

NextEngage == GenerateUser \/ SimulateEngagement

SpecEngage == InitEngage /\ [][NextEngage]_vars

\* ------------------------------------------------------------------------
\* Runs of the content generator and of the user generator side by side
\* ------------------------------------------------------------------------

\* a first run, with or without an output directory
InitShared ==
    /\ output_dir \in {NoDir, OutDir}
    /\ fs = EmptyFs
    /\ categories = [g \in Gens |-> NoCats]
    /\ rng = 0
    /\ ret = NoRet

NextShared == GenerateContents \/ GenerateUser

SpecShared == InitShared /\ [][NextShared]_vars

\* ------------------------------------------------------------------------
\* The generation loop of the category store, one request at a step
\* ------------------------------------------------------------------------
\* While a call is in its loop, ret holds the locals of the call: categories,
\* existing_names, min_count, and turn, which changes with every request.

\* _load_or_generate_categories(min_count) up to its loop: the call returns
\* from the store or the file, or fails on the file, or reaches the loop
BeginCategories ==
    /\ ret.st # "run"
    /\ \E min_count \in 0..MaxMinCount :
        \E o \in {load_or_generate_categories(categories["content"], fs, output_dir,
                                               min_count, <<>>)} :
            IF o.st = "more_cats"
            THEN /\ ret' = [op |-> "categories_while", st |-> "run", err |-> "",
                            min_count |-> min_count, turn |-> 0, val |-> <<>>,
                            categories |-> categories["content"].list,
                            existing_names |->
                                {c.name : c \in Range(categories["content"].list)}]
                 /\ UNCHANGED <<categories, fs>>
            ELSE /\ ret' = [op |-> "categories_while", st |-> o.st, err |-> o.err,
                            min_count |-> min_count, turn |-> 0, val |-> o.val,
                            categories |-> o.val, existing_names |-> {}]
                 /\ categories' = [categories EXCEPT !["content"] = o.cache]
                 /\ fs' = o.fs
    /\ UNCHANGED <<output_dir, rng>>

\* one turn of the while loop: the test holds, the oracle is asked for a
\* batch and answers with names or fails
RequestBatch ==
    /\ ret.st = "run" /\ Len(ret.categories) < ret.min_count
    /\ \E batch \in {b \in CatBatches : b.fail \/ b.cats # <<>>} :
        IF batch.fail
        THEN /\ ret' = [ret EXCEPT !.st = "raise", !.err = "OracleError"]
             /\ categories' =
                    IF categories["content"].list # <<>>
                    THEN [categories EXCEPT !["content"] = SomeCats(ret.categories)]
                    ELSE categories
        ELSE \E g \in {generate_categories(ret.existing_names, batch)} :
                /\ ret' = [ret EXCEPT !.categories = ret.categories \o g.categories,
                                      !.existing_names = g.existing_names,
                                      !.turn = 1 - ret.turn]
                /\ UNCHANGED categories
    /\ UNCHANGED <<output_dir, fs, rng>>

\* the test of the while loop fails: the ids are assigned, the list is
\* exported when there is an output_dir, stored and returned
EndCategories ==
    /\ ret.st = "run" /\ Len(ret.categories) >= ret.min_count
    /\ \E numbered \in {[i \in 1..Len(ret.categories) |->
                            [ret.categories[i] EXCEPT !.id = i]]} :
        /\ ret' = [ret EXCEPT !.st = "ok", !.val = numbered, !.categories = numbered]
        /\ categories' = [categories EXCEPT !["content"] = SomeCats(numbered)]
        /\ fs' = IF output_dir # NoDir
                 THEN [fs EXCEPT ![FileOf(output_dir \o <<"categories.csv">>)] =
                                     Written(export_categories_rows(numbered))]
                 ELSE fs
    /\ UNCHANGED <<output_dir, rng>>

NextLoop == BeginCategories \/ RequestBatch \/ EndCategories

\* A run without an output directory; a call goes on as long as it has a
\* step to take.
SpecLoop ==
    InitEngage /\ [][NextLoop]_vars /\ WF_vars(RequestBatch) /\ WF_vars(EndCategories)

\* ------------------------------------------------------------------------
\* Runs of the search-log step
\* ------------------------------------------------------------------------

\* setup_elasticsearch(config): the engine, or None when it is not healthy,
\* not reachable, or its index cannot be set up
SetupElasticsearch ==
    /\ ret.op # "setup_elasticsearch"
    /\ \E es \in BOOLEAN :
        ret' = [op |-> "setup_elasticsearch", st |-> "ok", err |-> "", es |-> es]
    /\ UNCHANGED <<output_dir, fs, categories, rng>>

\* generate_search_logs(es, users, config) with the engine that the setup
\* returned; the search engine answers each search with zero or one hit, or
\* fails
GenerateSearchLogs ==
    /\ ret.op = "setup_elasticsearch"
    /\ \E n \in 0..2 :
        \E users \in {u \in [1..n -> EngagedUsers] : \A i \in 1..n : u[i].user_id = i},
           qanswers \in [1..n -> UNION {Range(q) : q \in QueryScripts(1)}],
           sanswers \in [1..n -> {[fail |-> TRUE, hits |-> 0], [fail |-> FALSE, hits |-> 0],
                                  [fail |-> FALSE, hits |-> 1]}] :
          \E o \in {generate_search_logs(ret.es, users, qanswers, sanswers, fs)} :
            /\ fs' = o.fs
            /\ ret' = [op |-> "generate_search_logs", st |-> o.st, err |-> o.err,
                       es |-> ret.es, users |-> users,
                       queries |-> o.queries, logs |-> o.logs]
    /\ UNCHANGED <<output_dir, categories, rng>>

NextLogs == SetupElasticsearch \/ GenerateSearchLogs

SpecLogs == InitEngage /\ [][NextLogs]_vars

\* ------------------------------------------------------------------------
\* Runs of the query generator
\* ------------------------------------------------------------------------

\* QueryGenerator.generate_queries(user, count)
GenerateQueries ==
    /\ \E user \in EngagedUsers, count \in -1..MaxQueries :
        \E answers \in QueryScripts(count) :
          \E o \in {generate_queries(user, count, answers)} :
            ret' = [op |-> "generate_queries", user |-> user, count |-> count,
                    st |-> o.st, err |-> o.err, val |-> o.val, nquery |-> o.nquery]
    /\ UNCHANGED <<output_dir, fs, categories, rng>>

NextQueries == GenerateQueries

SpecQueries == InitEngage /\ [][NextQueries]_vars

\* ------------------------------------------------------------------------
\* _resolve_path on drawn arguments
\* ------------------------------------------------------------------------

\* the most parts of a path handed to _resolve_path
MaxParts == 3

\* the paths handed to _resolve_path: relative and absolute ones, the empty
\* path and the root included
PathArgs ==
    {p \in UNION {[1..n -> {"/", "sub", "..", "users.csv"}] : n \in 0..MaxParts} :
        \A i \in 2..Len(p) : p[i] # "/"}

\* CsvExporter._resolve_path(output_path, config)
ResolvePath ==
    /\ \E output_path \in PathArgs, config \in {NoConfig, Config(NoDir), Config(OutDir)} :
        ret' = [op |-> "resolve_path", output_path |-> output_path, config |-> config,
                val |-> resolve_path(output_path, config)]
    /\ UNCHANGED <<output_dir, fs, categories, rng>>

\* the files that the reuse lookups of generate_contents and generate_users
\* open for a csv_path, and the file an export to that path writes
ReuseLookup ==
    /\ \E dir \in {NoDir, OutDir}, csv_path \in PathArgs :
        ret' = [op |-> "reuse_lookup", dir |-> dir, csv_path |-> csv_path,
                contents |-> contents_file_path(dir, csv_path),
                users    |-> users_file_path(dir, csv_path),
                exported |-> IF csv_path = NoPath THEN NoPath
                             ELSE FileOf(resolve_path(csv_path, Config(dir)))]
    /\ UNCHANGED <<output_dir, fs, categories, rng>>

NextPath == ResolvePath \/ ReuseLookup

SpecPath == InitEngage /\ [][NextPath]_vars

\* ------------------------------------------------------------------------
\* validate_preferences on drawn arguments
\* ------------------------------------------------------------------------

\* longest preference list handed to validate_preferences
MaxPrefs == 3

\* longest list of category names handed to validate_preferences
MaxNames == 2

SeqsUpTo(S, lo, hi) == UNION {[1..n -> S] : n \in lo..hi}

InitPrefs ==
    /\ output_dir = NoDir
    /\ fs = EmptyFs
    /\ categories = [g \in Gens |-> NoCats]
    /\ rng = 0
    /\ \E preferences \in SeqsUpTo(CatNames \cup {NameX}, 0, MaxPrefs),
          category_names \in SeqsUpTo(CatNames, 1, MaxNames) :
         ret = [op |-> "given", preferences |-> preferences,
                category_names |-> category_names, val |-> <<>>]

\* UserGenerator.validate_preferences(preferences, category_names)
ValidatePreferences ==
    /\ ret.op = "given"
    /\ ret' = [ret EXCEPT !.op = "validate_preferences",
                          !.val = validate_preferences(ret.preferences, ret.category_names)]
    /\ UNCHANGED <<output_dir, fs, categories, rng>>

NextPrefs == ValidatePreferences

SpecPrefs == InitPrefs /\ [][NextPrefs]_vars

\* ------------------------------------------------------------------------
\* Exports and imports of collections held in memory
\* ------------------------------------------------------------------------

\* the items of the collections
ContentItems ==
    {[content_id |-> id, title |-> t, description |-> d, category |-> NameC]
        : id \in {-3, 0, 12}, t \in {<<>>, <<"t", ",", "\"">>},
          d \in {<<"x", "\n">>, <<"\r", " ">>}}

QueryItems ==
    {[query_id |-> 1, user_id |-> u, query_content |-> q, category |-> NameC,
      timestamp |-> ts]
        : u \in 1..2, q \in {<<"q">>, <<"q", "\"">>}, ts \in 0..1}

LogItems ==
    {[query_id |-> 1, user_id |-> u, search_query |-> <<"q", ",">>,
      search_results |-> rs, clicks |-> e[1], ctr |-> e[2]]
        : u \in 1..2,
          rs \in {<<>>, <<[content_id |-> 5, title |-> <<"t", "\"">>, url |-> <<"u">>,
                          relevance_score |-> <<"0", ".", "5">>],
                         [content_id |-> 6, title |-> <<>>, url |-> <<"u">>,
                          relevance_score |-> NoneVal]>>},
          e \in {<<NoneVal, NoneVal>>, <<IntToText(1), <<"0", ".", "5">>>>}}

ContentLists == SeqsUpTo(ContentItems, 0, MaxLen)

QueryLists == SeqsUpTo(QueryItems, 0, MaxLen)

LogLists == SeqsUpTo(LogItems, 0, MaxLen)

\* a collection the caller holds
Given(kind, val) == [op |-> "given", kind |-> kind, st |-> "ok", val |-> val, path |-> NoPath]

InitCsv ==
    /\ output_dir = OutDir
    /\ fs = EmptyFs
    /\ categories = [g \in Gens |-> NoCats]
    /\ rng = 0
    /\ ret \in {Given("contents", c) : c \in ContentLists}
             \cup {Given("queries", q) : q \in QueryLists}
             \cup {Given("logs", l) : l \in LogLists}

\* the config argument of an export: none, or the configuration of the run
ExportConfigs == {NoConfig, Config(output_dir)}

\* an export of the held collection: the rows go to the resolved path
Export(op, kind, name, rows) ==
    /\ ret.kind = kind /\ ret.st = "ok"
    /\ \E config \in ExportConfigs :
        LET path == FileOf(resolve_path(<<name>>, config))
        IN  /\ fs' = [fs EXCEPT ![path] = Written(rows)]
            /\ ret' = [op |-> op, kind |-> kind, st |-> "ok", val |-> ret.val, path |-> path]
    /\ UNCHANGED <<output_dir, categories, rng>>

\* CsvExporter.export_content(contents, "contents.csv", config)
ExportContent ==
    Export("export_content", "contents", "contents.csv", export_content_rows(ret.val))

\* CsvExporter.export_search_queries(queries, "queries.csv", config)
ExportSearchQueries ==
    Export("export_search_queries", "queries", "queries.csv",
           export_search_queries_rows(ret.val))

\* CsvExporter.export_search_logs(logs, "logs.csv", config)
ExportSearchLogs ==
    Export("export_search_logs", "logs", "logs.csv", export_search_logs_rows(ret.val))

\* CsvImporter.import_content(input_path)
ImportContent ==
    /\ \E input_path \in {FileOf(d \o <<"contents.csv">>) : d \in {NoDir, OutDir}} :
        LET r == import_content(fs[input_path])
        IN  ret' = [op |-> "import_content", kind |-> "contents", st |-> r.st,
                    val |-> r.val, path |-> input_path]
    /\ UNCHANGED <<output_dir, fs, categories, rng>>

NextCsv == ExportContent \/ ExportSearchQueries \/ ExportSearchLogs \/ ImportContent

SpecCsv == InitCsv /\ [][NextCsv]_vars

\* ------------------------------------------------------------------------
\* Properties of generate_contents
\* ------------------------------------------------------------------------

\* the contents.csv that generate_contents looks for when csv_path is None
ConfiguredContents == FileOf(resolve_path(<<"contents.csv">>, Config(output_dir)))

\* C1: a call of generate_contents with count above the cap fails with
\* ContentGenerationError, asks the oracle nothing, reads no file, and
\* leaves the category store and every file as they were, whatever the
\* reuse flag and whatever is persisted
C1_LimitFailsFast ==
    [][(ret'.op = "generate_contents" /\ ret'.count > MaxContents)
        => /\ ret'.st = "raise" /\ ret'.err = "ContentGenerationError"
           /\ ret'.ncat = 0 /\ ret'.ncontent = 0
           /\ ret'.reads = {}
           /\ categories' = categories
           /\ fs' = fs]_vars

\* a call above the cap with reuse on, over a persisted contents.csv that
\* has more rows than the cap and a persisted categories.csv
C1_Witness ==
    /\ ret.op = "generate_contents" /\ ret.count > MaxContents /\ ret.reuse
    /\ ret.err = "ContentGenerationError"
    /\ Len(fs[ConfiguredContents].records) > MaxContents + 1
    /\ output_dir # NoDir /\ fs[FileOf(output_dir \o <<"categories.csv">>)].exists

\* C2: generate_contents(count, reuse=false) with count within the cap
\* returns exactly count items whose ids are 1..count in order, unless an
\* oracle request failed
C2_CountAndIds ==
    (ret.op = "generate_contents" /\ ~ret.reuse /\ ret.count <= MaxContents)
        => \/ /\ ret.st = "ok"
              /\ Len(ret.val) = ret.count
              /\ \A i \in 0..(ret.count - 1) : ret.val[i + 1].content_id = i + 1
           \/ ret.st = "raise" /\ ret.err = "OracleError"

\* a fresh generation of as many items as the cap allows
C2_Witness ==
    /\ ret.op = "generate_contents" /\ ~ret.reuse /\ ret.st = "ok"
    /\ ret.count = MaxContents /\ Len(ret.val) = MaxContents
    /\ ret.ncontent = MaxContents

\* C3: on the generation path the item at 0-based position i carries the
\* name of the category at position i mod k of the k >= 1 categories of the
\* store, hence the category of the item at position i mod k
C3_RoundRobin ==
    (ret.op = "generate_contents" /\ ret.st = "ok" /\ ret.ncontent > 0)
        => LET cats == categories["content"].list
               k    == Len(cats)
           IN  /\ k >= 1
               /\ \A i \in 0..(ret.count - 1) :
                    /\ ret.val[i + 1].category = cats[(i % k) + 1].name
                    /\ ret.val[i + 1].category = ret.val[(i % k) + 1].category

\* more items than categories over two categories: the third item is back
\* on the first category, and the titles of the items differ
C3_Witness ==
    /\ ret.op = "generate_contents" /\ ret.st = "ok" /\ ret.ncontent = 3
    /\ Len(categories["content"].list) = 2
    /\ ret.val[1].category # ret.val[2].category
    /\ ret.val[3].category = ret.val[1].category
    /\ ret.val[2].title # ret.val[1].title

\* C4: with a contents.csv of at least N entries at the configured
\* location, generate_contents(N, reuse=true), N within the cap, returns the
\* first N persisted entries and asks the oracle nothing
C4_ReuseWithoutOracle ==
    [][LET persisted == import_content(fs[ConfiguredContents])
       IN  (/\ ret'.op = "generate_contents" /\ ret'.reuse
            /\ ret'.count <= MaxContents
            /\ persisted.st = "ok" /\ Len(persisted.val) >= ret'.count)
           => /\ ret'.st = "ok"
              /\ ret'.val = Take(persisted.val, ret'.count)
              /\ ret'.ncat = 0 /\ ret'.ncontent = 0]_vars

\* ------------------------------------------------------------------------
\* Properties of validate_preferences and of generate_users
\* ------------------------------------------------------------------------

\* C5: validate_preferences returns the entries of the raw list that are
\* category names, in their order, or the first category name alone when
\* there is none; the result is never empty
C5_ValidatePreferences ==
    ret.op = "validate_preferences"
        => LET raw   == ret.preferences
               names == ret.category_names
               known == {i \in 1..Len(raw) : \E k \in 1..Len(names) : names[k] = raw[i]}
           IN  /\ ret.val # <<>>
               /\ known = {} => ret.val = <<names[1]>>
               /\ known # {} =>
                    /\ Len(ret.val) = Cardinality(known)
                    /\ \E f \in [1..Len(ret.val) -> known] :
                         /\ \A i, j \in 1..Len(ret.val) : i < j => f[i] < f[j]
                         /\ \A i \in 1..Len(ret.val) : ret.val[i] = raw[f[i]]

\* a list with an unknown entry between two known ones, one of them twice
C5_Witness ==
    /\ ret.op = "validate_preferences"
    /\ ret.preferences = <<NameB, NameX, NameB>>
    /\ ret.category_names = <<NameA, NameB>>
    /\ ret.val = <<NameB, NameB>>

\* the names of the category store of the user generator
StoreNames == {c.name : c \in Range(categories["user"].list)}

ConfiguredUsers == FileOf(output_dir \o <<"users.csv">>)

\* C7: with a category store that the call leaves as it is, users exported
\* to users.csv whose preferences all name categories of the store come
\* back from generate_users(count, reuse=true) with their user_id and their
\* preferences
C7_UserReuseRoundTrip ==
    [][\A us \in PersistedUsers :
        (/\ ret'.op = "generate_users" /\ ret'.reuse /\ ret'.count <= Len(us)
         /\ fs[ConfiguredUsers] = Written(export_users_rows(us))
         /\ categories["user"].set /\ categories' = categories
         /\ \A i \in 1..Len(us) : \A j \in 1..Len(us[i].preferences) :
               us[i].preferences[j] \in StoreNames)
        => /\ ret'.st = "ok"
           /\ Len(ret'.val) = ret'.count
           /\ \A i \in 1..ret'.count :
                /\ ret'.val[i].user_id = us[i].user_id
                /\ ret'.val[i].preferences = us[i].preferences]_vars

\* ------------------------------------------------------------------------
\* Properties of the exporter and the importer
\* ------------------------------------------------------------------------

C9_RoundTrip ==
    /\ ret.op = "export_search_queries"
         => \A qs \in QueryLists :
              Written(export_search_queries_rows(qs)) = fs[ret.path] => qs = ret.val
    /\ ret.op = "export_search_logs"
         => \A ls \in LogLists :
              Written(export_search_logs_rows(ls)) = fs[ret.path] => ls = ret.val

\* C9: the rows of queries.csv carry query_id, query_content and category
\* of each query, in order, under three columns; the rows of logs.csv carry
\* query_id, user_id, search_query and the JSON text of search_results of
\* each log, in order, under four columns
C9_ExportedFields ==
    /\ ret.op = "export_search_queries"
         => LET d == DictReader(fs[ret.path].records)
            IN  /\ d.fieldnames = QueryHeader
                /\ Len(d.rows) = Len(ret.val)
                /\ \A i \in 1..Len(ret.val) :
                     /\ TextToInt(Lookup(d.fieldnames, d.rows[i], "Query ID")).val
                            = ret.val[i].query_id
                     /\ Lookup(d.fieldnames, d.rows[i], "Query Content")
                            = ret.val[i].query_content
                     /\ Lookup(d.fieldnames, d.rows[i], "Category") = ret.val[i].category
    /\ ret.op = "export_search_logs"
         => LET d == DictReader(fs[ret.path].records)
            IN  /\ d.fieldnames = LogHeader
                /\ Len(d.rows) = Len(ret.val)
                /\ \A i \in 1..Len(ret.val) :
                     /\ TextToInt(Lookup(d.fieldnames, d.rows[i], "Query ID")).val
                            = ret.val[i].query_id
                     /\ TextToInt(Lookup(d.fieldnames, d.rows[i], "User ID")).val
                            = ret.val[i].user_id
                     /\ Lookup(d.fieldnames, d.rows[i], "Search Query")
                            = ret.val[i].search_query
                     /\ Lookup(d.fieldnames, d.rows[i], "Search Results (JSON)")
                            = json_dumps(ret.val[i].search_results)

\* an export of two logs, one with results and with clicks and ctr set
C9_Witness ==
    /\ ret.op = "export_search_logs" /\ Len(ret.val) = 2
    /\ ret.val[1].user_id # ret.val[1].query_id
    /\ Len(ret.val[1].search_results) = 2 /\ ret.val[1].clicks # NoneVal
    /\ fs[ret.path].exists

\* ------------------------------------------------------------------------
\* Properties of simulate_engagement
\* ------------------------------------------------------------------------

\* C10: what simulate_engagement returns is what it returns for the same
\* user_id and as many results from any state of the generator and with any
\* other fields of the user
C10_EngagementDeterministic ==
    ret.op = "simulate_engagement"
        => \A r \in RngStates, u \in EngagedUsers :
             u.user_id = ret.user.user_id
                 => simulate_engagement(r, u, Results(ret.nresults)).val = ret.val

\* a simulation over more than five results, after user generations that
\* moved the generator, that differs from the other user's
C10_Witness ==
    /\ ret.op = "simulate_engagement" /\ ret.nresults > 5
    /\ categories["user"].set /\ ret.rng_before # 0
    /\ \E u \in EngagedUsers :
         simulate_engagement(rng, u, Results(ret.nresults)).val # ret.val

\* C11: simulate_engagement returns 0 <= clicks <= min(5, len(results)) and
\* 0 <= ctr <= 1; ctr is clicks / len(results) over a list that is not
\* empty, and over an empty list clicks is 0 and ctr is 0 (a quotient with
\* a denominator that is not 0)
C11_EngagementBounds ==
    ret.op = "simulate_engagement"
        => LET clicks == ret.val[1]
               ctr    == ret.val[2]
           IN  /\ 0 <= clicks /\ clicks <= Min(5, ret.nresults)
               /\ ctr.den > 0 /\ 0 <= ctr.num /\ ctr.num <= ctr.den
               /\ ret.nresults > 0 => ctr = Ratio(clicks, ret.nresults)
               /\ ret.nresults = 0 => clicks = 0 /\ ctr.num = 0

\* five clicks on more than five results
C11_Witness ==
    /\ ret.op = "simulate_engagement" /\ ret.nresults > 5
    /\ ret.val = <<5, Ratio(5, ret.nresults)>>

\* C12: generate_queries(user, count) with count >= 0 and every request
\* answered returns exactly count queries, the query at position i carrying
\* query_id = i and user_id = user.user_id, after count requests
C12_QueryIds ==
    (ret.op = "generate_queries" /\ ret.count >= 0 /\ ret.st # "raise")
        => /\ ret.st = "ok"
           /\ Len(ret.val) = ret.count
           /\ ret.nquery = ret.count
           /\ \A i \in 1..Len(ret.val) :
                 ret.val[i].query_id = i /\ ret.val[i].user_id = ret.user.user_id

\* the most queries, for the second user
C12_Witness ==
    /\ ret.op = "generate_queries" /\ ret.st = "ok"
    /\ ret.count = MaxQueries /\ Len(ret.val) = MaxQueries
    /\ ret.user.user_id = 2 /\ ret.val[MaxQueries].query_id = MaxQueries

\* C13: with an output directory configured a bare filename resolves to
\* output_dir/filename, and an absolute path or one with directory
\* components resolves to itself; with no output directory configured, or no
\* config, every path resolves to itself
C13_ResolvePath ==
    ret.op = "resolve_path"
        => LET path       == ret.output_path
               configured == ret.config # NoConfig /\ ret.config[1] # NoDir
               absolute   == path # <<>> /\ path[1] = "/"
           IN  /\ (configured /\ Len(path) = 1 /\ ~absolute)
                      => ret.val = ret.config[1] \o path
               /\ (configured /\ (absolute \/ Len(path) > 1)) => ret.val = path
               /\ ~configured => ret.val = path

\* a relative path with a directory in it, resolved with output_dir configured
C13_Witness ==
    /\ ret.op = "resolve_path" /\ ret.config = Config(OutDir)
    /\ ret.output_path = <<"sub", "users.csv">> /\ ret.val = <<"sub", "users.csv">>

\* C14: a call of _load_or_generate_categories(min_count) that asks the
\* oracle returns at least min_count categories whose names are pairwise
\* distinct, whatever names the answers repeat, and the category at
\* position j has id = j
C14_UniqueNumbered ==
    (ret.op = "load_or_generate_categories" /\ ret.st = "ok" /\ ret.ncat > 0)
        => /\ Len(ret.val) >= ret.min_count
           /\ \A i, j \in 1..Len(ret.val) : i # j => ret.val[i].name # ret.val[j].name
           /\ \A j \in 1..Len(ret.val) : ret.val[j].id = j

\* three categories out of two answers, the second of which repeats a name
\* of the first
C14_Witness ==
    /\ ret.op = "load_or_generate_categories" /\ ret.st = "ok"
    /\ ret.ncat = 2 /\ Len(ret.val) = MaxMinCount
    /\ \E e \in Range(ret.script[2].cats) :
          e.name \in {c.name : c \in Range(ret.script[1].cats)}

\* C15: when categories.csv holds what another generator of the run has in
\* its store, at least min_count entries, a generator that has loaded nothing
\* yet obtains the same names in the same order from the file and asks the
\* oracle for no category
C15_FreshGeneratorReuses ==
    [][\A g \in Gens, h \in Gens :
          (/\ g # h
           /\ ret'.op = "load_or_generate_categories" /\ ret'.g = g
           /\ categories[g] = NoCats /\ categories[h].set
           /\ output_dir # NoDir
           /\ fs[FileOf(output_dir \o <<"categories.csv">>)]
                  = Written(export_categories_rows(categories[h].list))
           /\ Len(categories[h].list) >= ret'.min_count)
          => /\ ret'.st = "ok" /\ ret'.ncat = 0
             /\ [i \in 1..Len(ret'.val) |-> ret'.val[i].name]
                    = [i \in 1..Len(categories[h].list) |-> categories[h].list[i].name]
    ]_vars

\* the second generator has read the three categories that the first one
\* generated and persisted, a name with a comma among them
C15_Witness ==
    /\ ret.op = "load_or_generate_categories" /\ ret.st = "ok"
    /\ ret.ncat = 0 /\ ret.reads # {} /\ Len(ret.val) = 3
    /\ ret.val = categories[ret.g].list
    /\ \A h \in Gens : categories[h].set /\ categories[h].list = ret.val

C17_OracleFailureKind ==
    (/\ ret.op = "load_or_generate_categories"
     /\ ret.script # <<>> /\ ret.script[Len(ret.script)].fail)
        => ret.st = "raise" /\ ret.err = "GenerationError"

\* C18: once the content generator and the user generator of a run both
\* hold categories, they hold the same names in the same order, with or
\* without an output directory
C18_OneCategorySet ==
    (categories["content"].set /\ categories["user"].set)
        => [i \in 1..Len(categories["content"].list) |-> categories["content"].list[i].name]
             = [i \in 1..Len(categories["user"].list) |-> categories["user"].list[i].name]

\* C19: a call of generate_contents(count) that generates, count within the
\* cap, cycles over a category sequence of at least count entries
C19_EnoughCategories ==
    (/\ ret.op = "generate_contents" /\ ret.st = "ok"
     /\ ret.count <= MaxContents /\ ret.ncontent > 0)
        => Len(categories["content"].list) >= ret.count

\* C20: a call that has reached the generation loop eventually returns or
\* fails, whatever names the oracle answers its requests with
C20_LoopTerminates == (ret.st = "run") ~> (ret.st \in {"ok", "raise"})

\* C21: a call of generate_users that asks the oracle for a user either
\* returns count users after count requests, or fails with an empty hand
\* after at most count requests: a user whose answer is unparsable or lacks
\* a field is not left out, its request is not repeated, and the users
\* generated before it are not returned
C21_MalformedUserFails ==
    (ret.op = "generate_users" /\ ret.nuser > 0)
        => \/ /\ ret.st = "ok"
              /\ Len(ret.val) = ret.count /\ ret.nuser = ret.count
           \/ /\ ret.st = "raise" /\ ret.err \in {"OracleError", "KeyError", "ValueError"}
              /\ ret.val = <<>> /\ ret.nuser <= ret.count

\* the answer to the second of two user requests lacks a field
C21_Witness ==
    /\ ret.op = "generate_users" /\ ret.count = 2 /\ ret.nuser = 2
    /\ ret.st = "raise" /\ ret.err = "KeyError" /\ ret.val = <<>>

\* C22: the category of every query that generate_queries returns names a
\* category of a store of the run or one of the user's preferences, which
\* are drawn from the store
C22_QueryCategoryKnown ==
    (ret.op = "generate_queries" /\ ret.st = "ok")
        => \A i \in 1..Len(ret.val) :
              ret.val[i].category \in
                  Range(ret.user.preferences)
                  \cup UNION {{c.name : c \in Range(categories[g].list)} : g \in Gens}

\* C23: the search-log step does not fail on account of the search engine,
\* unavailable at setup or failing during a search: unless a query request
\* fails, every user has its query, every query has exactly one log, and
\* queries.csv and logs.csv are written
C23_DegradedSearch ==
    (ret.op = "generate_search_logs" /\ ret.err \notin {"OracleError", "KeyError"})
        => /\ ret.st = "ok"
           /\ Len(ret.queries) = Len(ret.users) /\ Len(ret.logs) = Len(ret.queries)
           /\ \A i \in 1..Len(ret.logs) :
                 /\ ret.logs[i].user_id = ret.users[i].user_id
                 /\ ret.logs[i].query_id = ret.queries[i].query_id
           /\ fs[FileOf(OutDir \o <<"queries.csv">>)]
                 = Written(export_search_queries_rows(ret.queries))
           /\ fs[FileOf(OutDir \o <<"logs.csv">>)]
                 = Written(export_search_logs_rows(ret.logs))

C25_ReuseWithoutOracle ==
    \A us \in PersistedUsers :
        (/\ ret.op = "generate_users" /\ ret.reuse /\ ret.count <= Len(us)
         /\ fs[ConfiguredUsers] = Written(export_users_rows(us)))
        => /\ ret.st = "ok"
           /\ ret.ncat = 0 /\ ret.nuser = 0
           /\ Len(ret.val) = ret.count
           /\ \A i \in 1..ret.count : ret.val[i].user_id = us[i].user_id

\* C26: in a run whose generators share an output directory, when a call of
\* the category store has returned and the next call asks for as many
\* categories or more, the sequence returned first is a prefix, by id and
\* name, of the sequence the next call returns and of what it leaves
\* persisted
C26_AppendOnly ==
    [][LET persisted == import_categories(fs'[FileOf(output_dir \o <<"categories.csv">>)])
           prefix(later) ==
               /\ Len(ret.val) <= Len(later)
               /\ \A i \in 1..Len(ret.val) :
                     /\ later[i].id = ret.val[i].id
                     /\ later[i].name = ret.val[i].name
       IN  (/\ output_dir # NoDir
            /\ ret.op = "load_or_generate_categories" /\ ret.st = "ok"
            /\ ret'.op = "load_or_generate_categories" /\ ret'.st = "ok"
            /\ ret'.min_count >= ret.min_count)
           => /\ prefix(ret'.val)
              /\ persisted.st = "ok" /\ prefix(persisted.val)
    ]_vars

\* C27: the reuse lookup of generate_users opens the file that an export to
\* the same csv_path under the same configuration writes, a bare file name
\* being looked for in the output directory, and it resolves every csv_path
\* to the file the content reuse lookup resolves it to
C27_SameLookupPath ==
    (ret.op = "reuse_lookup" /\ ret.csv_path # NoPath)
        => /\ ret.users = ret.exported
           /\ ret.users = ret.contents

\* ------------------------------------------------------------------------
\* The batch driver: a large count made in sub-batches
\* ------------------------------------------------------------------------

\* the largest batch_size of a driver
MaxBatch == 2

\* the largest total_count of a driver
MaxTotal == 3

\* generate_and_export_contents / generate_and_export_users up to the for
\* loop: a generator of its own, the empty list, the number of batches and
\* the remainder
BeginBatches ==
    /\ ret.op # "batches" \/ ret.st # "run"
    /\ \E kind \in {"contents", "users"}, batch_size \in 1..MaxBatch,
          total_count \in 0..MaxTotal :
        /\ ret' = [op |-> "batches", kind |-> kind, st |-> "run", err |-> "",
                   batch_size |-> batch_size,
                   batches |-> total_count \div batch_size,
                   remainder |-> total_count % batch_size,
                   i |-> 0, val |-> <<>>]
        /\ categories' = [categories EXCEPT ![IF kind = "contents" THEN "content"
                                              ELSE "user"] = NoCats]
    /\ UNCHANGED <<output_dir, fs, rng>>

\* One batch: for i in range(batches) a batch of batch_size, then, if
\* remainder > 0, the batch of the remainder; each is generate_contents(count)
\* or generate_users(count) of the driver's generator, and contents.extend /
\* users.extend of what it returns.  The driver returns after its last batch.
NextBatch ==
    /\ ret.op = "batches" /\ ret.st = "run"
    /\ ret.i < ret.batches \/ ret.remainder > 0
    /\ LET g == IF ret.kind = "contents" THEN "content" ELSE "user"
           count == IF ret.i < ret.batches THEN ret.batch_size ELSE ret.remainder
           last == IF ret.i < ret.batches
                   THEN ret.i + 1 = ret.batches /\ ret.remainder = 0
                   ELSE TRUE
           call(script, answers) ==
               IF ret.kind = "contents"
               THEN generate_contents(categories[g], fs, output_dir,
                                      count, TRUE, NoPath, script, answers)
                        @@ [rng |-> rng]
               ELSE generate_users(categories[g], fs, output_dir, rng,
                                   count, TRUE, NoPath, script, answers)
           more == IF ret.kind = "contents" THEN "more_contents" ELSE "more_users"
       IN  \E script \in (IF call(<<>>, <<>>).st = "more_cats"
                           THEN ScriptsFor(categories[g], DefaultMinCount) ELSE {<<>>}) :
             \E answers \in (IF call(script, <<>>).st = more
                             THEN (IF ret.kind = "contents" THEN ContentScripts(count)
                                   ELSE UserScripts(count))
                             ELSE {<<>>}) :
               \E o \in {call(script, answers)} :
                   /\ categories' = [categories EXCEPT ![g] = o.cache]
                   /\ fs' = o.fs
                   /\ rng' = o.rng
                   /\ ret' = IF o.st = "ok"
                             THEN [ret EXCEPT !.val = ret.val \o o.val,
                                              !.i = IF ret.i < ret.batches
                                                    THEN ret.i + 1 ELSE ret.i,
                                              !.remainder = IF ret.i < ret.batches
                                                            THEN ret.remainder ELSE 0,
                                              !.st = IF last THEN "ok" ELSE "run"]
                             ELSE [ret EXCEPT !.st = "raise", !.err = o.err]
    /\ UNCHANGED output_dir

\* the return of a driver that has nothing to generate
EndBatches ==
    /\ ret.op = "batches" /\ ret.st = "run"
    /\ ret.batches = 0 /\ ret.remainder = 0
    /\ ret' = [ret EXCEPT !.st = "ok"]
    /\ UNCHANGED <<output_dir, fs, categories, rng>>

NextBatches == BeginBatches \/ NextBatch \/ EndBatches

SpecBatches == InitShared /\ [][NextBatches]_vars

\* C28: the entities a batch driver has collected from its repeated
\* generate_contents (generate_users) calls carry pairwise distinct ids
C28_BatchIdsUnique ==
    (ret.op = "batches" /\ ret.st = "ok")
        => \A i \in 1..Len(ret.val), j \in 1..Len(ret.val) :
              i # j =>
                  IF ret.kind = "contents"
                  THEN ret.val[i].content_id # ret.val[j].content_id
                  ELSE ret.val[i].user_id # ret.val[j].user_id

\* C29: a call of the category store that fails leaves the store of every
\* generator as it was before the call, and a call that returns hands out
\* no category with id 0: every entry carries the id of its position
C29_FailureLeavesStore ==
    [][(ret'.op = "load_or_generate_categories")
        => /\ ret'.st = "raise" => categories' = categories
           /\ ret'.st = "ok" => \A i \in 1..Len(ret'.val) : ret'.val[i].id = i
    ]_vars

\* C30: simulate_engagement changes nothing but its return value: the
\* process-wide random generator, from which generate_user draws its
\* category of interest afterwards, the files and the category stores are
\* as they were before the call
C30_EngagementIsPure ==
    [][(ret'.op = "simulate_engagement")
        => /\ rng' = rng
           /\ fs' = fs
           /\ categories' = categories
    ]_vars

====
